---- MODULE Spec2Model ----
(***************************************************************************)
(* Model of the commutation engine of commvalues.py: the lazily loaded     *)
(* mortality table store, the vector builders Vec_lx .. Vec_Rx, and the    *)
(* memoised scalar accessors Act_Dx .. Act_Rx with their process-wide      *)
(* cache.                                                                  *)
(*                                                                         *)
(* Representation.  Strings are sequences of one-character strings, so     *)
(* that strip(), upper() and the f-string of BuildCacheKey are computed    *)
(* and not assumed.  Numbers are fixed-point: a mortality rate is an       *)
(* integer count of 1/QDEN, every commutation value is an integer, and     *)
(* _excel_round quantises an exact quotient half away from zero.  An       *)
(* interest rate is a record [n, d, s]: the rational n/d and the           *)
(* characters Python prints for it.                                        *)
(***************************************************************************)
EXTENDS Integers, Sequences, FiniteSets, TLC

\* constants.py is not part of the sources at hand; the values below are
\* small stand-ins for the configured maximum age and rounding digits.  The
\* digits are configured per quantity; the stand-in for Nx differs from the
\* one for Dx so that the two precisions can be told apart.
MAX_AGE == 5
ROUND_LX == 0
ROUND_TX == 0
ROUND_DX == 0
ROUND_CX == 0
ROUND_NX == -1
ROUND_MX == 0
ROUND_RX == 0

\* Rates are carried as integer counts of 1/QDEN (three decimals).
QDEN == 10 * 10 * 10

-----------------------------------------------------------------------------
(* Strings *)

Lowers == <<"a","b","c","d","e","f","g","h","i","j","k","l","m",
            "n","o","p","q","r","s","t","u","v","w","x","y","z">>
Uppers == <<"A","B","C","D","E","F","G","H","I","J","K","L","M",
            "N","O","P","Q","R","S","T","U","V","W","X","Y","Z">>

UpperOf == [c \in {Lowers[i] : i \in 1..Len(Lowers)} |->
                Uppers[CHOOSE i \in 1..Len(Lowers) : Lowers[i] = c]]

UpperChar(c) == IF c \in DOMAIN UpperOf THEN UpperOf[c] ELSE c

\* str.upper()
Upper(s) == [i \in 1..Len(s) |-> UpperChar(s[i])]

IsSpace(c) == c \in {" ", "\t", "\n"}

RECURSIVE LStrip(_)
LStrip(s) == IF s # <<>> /\ IsSpace(Head(s)) THEN LStrip(Tail(s)) ELSE s

RECURSIVE RStrip(_)
RStrip(s) ==
    IF s # <<>> /\ IsSpace(s[Len(s)]) THEN RStrip(SubSeq(s, 1, Len(s) - 1)) ELSE s

\* str.strip()
Strip(s) == RStrip(LStrip(s))

Digits == <<"0","1","2","3","4","5","6","7","8","9">>

RECURSIVE NatStr(_)
NatStr(n) == IF n < 10 THEN <<Digits[n + 1]>>
             ELSE NatStr(n \div 10) \o <<Digits[(n % 10) + 1]>>

\* the characters an f-string prints for an int
IntStr(n) == IF n < 0 THEN <<"-">> \o NatStr(-n) ELSE NatStr(n)

-----------------------------------------------------------------------------
(* Arithmetic *)

RECURSIVE Pow(_, _)
Pow(b, e) == IF e = 0 THEN 1 ELSE b * Pow(b, e - 1)

Max(a, b) == IF a >= b THEN a ELSE b

\* the integer nearest to n/d (d > 0), a tie going away from zero
RECURSIVE RoundHalfUp(_, _)
RoundHalfUp(n, d) ==
    IF n < 0 THEN -RoundHalfUp(-n, d)
    ELSE (n \div d) + (IF 2 * (n % d) >= d THEN 1 ELSE 0)

\* _excel_round(num/den, digits), for digits <= 0 (integer-valued results)
_excel_round(num, den, digits) ==
    LET quant == Pow(10, -digits)
    IN  quant * RoundHalfUp(num, den * quant)

\* _excel_round(a * b / c, digits) for b >= 0, c > 0 and digits <= 0, computed
\* from the quotient and remainder of a so that a * b is never formed
RECURSIVE _excel_round_prod(_, _, _, _)
_excel_round_prod(a, b, c, digits) ==
    IF a < 0 THEN -_excel_round_prod(-a, b, c, digits)
    ELSE LET den == c * Pow(10, -digits)
         IN  Pow(10, -digits) * ((a \div den) * b + RoundHalfUp((a % den) * b, den))

\* a Python list index: vec[i] on a list of length len; -1 where it raises
PyIndex(i, len) ==
    IF i >= 0 THEN (IF i < len THEN i ELSE -1)
    ELSE (IF len + i >= 0 THEN len + i ELSE -1)

-----------------------------------------------------------------------------
(* The mortality table source and its loader *)

\* "0,125" -> 0.125: the integer part and the three decimals after the comma
_parse_float_comma_decimal(text) == text.ip * QDEN + text.fp

RECURSIVE MaxXy(_, _, _)
MaxXy(records, i, acc) ==
    IF i > Len(records) THEN acc
    ELSE MaxXy(records, i + 1,
               IF records[i].hasXy THEN Max(acc, records[i].xy) ELSE acc)

FillRecord(tables, rec, table_tags) ==
    IF ~rec.hasXy THEN tables
    ELSE [k \in DOMAIN tables |->
            LET hit == {tag \in table_tags \cap DOMAIN rec.cols : Upper(tag) = k}
            IN  IF hit = {} THEN tables[k]
                ELSE [tables[k] EXCEPT ![rec.xy] =
                        _parse_float_comma_decimal(rec.cols[CHOOSE tag \in hit : TRUE])]]

RECURSIVE FillAll(_, _, _, _)
FillAll(tables, records, i, table_tags) ==
    IF i > Len(records) THEN tables
    ELSE FillAll(FillRecord(tables, records[i], table_tags), records, i + 1, table_tags)

\* The body of _load_mortality_tables_if_needed past the flag test: the
\* outcome and the vectors it would store.
ParseSource(file) ==
    IF ~file.exists THEN [out |-> "FileNotFoundError", tables |-> <<>>]
    ELSE IF file.records = <<>> THEN [out |-> "NoRecords", tables |-> <<>>]
    ELSE LET table_tags == DOMAIN file.records[1].cols
             size == Max(MaxXy(file.records, 1, 0), MAX_AGE) + 1
             empty == [k \in {Upper(tag) : tag \in table_tags} |->
                          [a \in 0..(size - 1) |-> 0]]
         IN  [out |-> "ok",
              tables |-> FillAll(empty, file.records, 1, table_tags)]

\* _load_mortality_tables_if_needed on the store st = [loaded, tables]:
\* the outcome, the store afterwards and whether the source was parsed.
Loaded(st, file, p) ==
    IF p.out = "ok"
    THEN [out |-> "ok", st |-> [loaded |-> TRUE, tables |-> p.tables], parsed |-> TRUE]
    ELSE [out |-> p.out, st |-> st, parsed |-> file.exists]

\* a loader without the flag test: it parses on every call
LoadAlways(st, file) == Loaded(st, file, ParseSource(file))

_load_mortality_tables_if_needed(st, file) ==
    IF st.loaded THEN [out |-> "ok", st |-> st, parsed |-> FALSE]
    ELSE Loaded(st, file, ParseSource(file))

-----------------------------------------------------------------------------
(* Rate lookup *)

TDAV1994 == <<"D","A","V","1","9","9","4","_","T">>
TDAV2008 == <<"D","A","V","2","0","0","8","_","T">>

\* a normalisation that forgets upper()
NormSexNoUpper(Sex) == IF Strip(Sex) # <<"M">> THEN <<"F">> ELSE <<"M">>

\* sex = (Sex or "").strip().upper(); if sex != "M": sex = "F"
NormSex(Sex) == IF Upper(Strip(Sex)) # <<"M">> THEN <<"F">> ELSE <<"M">>

\* table_id = (TableId or "").strip().upper()
NormTable(TableId) == Upper(Strip(TableId))

\* a lookup that answers 1.0 for a table it does not know
QxLookupDefault(ld, Age, table_id, table_vector) ==
    IF ld.out # "ok"
    THEN [out |-> ld.out, val |-> 0, st |-> ld.st, parsed |-> ld.parsed]
    ELSE IF table_id \in {TDAV1994, TDAV2008}
    THEN IF table_vector \notin DOMAIN ld.st.tables
         THEN [out |-> "KeyError", val |-> 0, st |-> ld.st, parsed |-> ld.parsed]
         ELSE IF Age < 0 \/ Age >= Cardinality(DOMAIN ld.st.tables[table_vector])
         THEN [out |-> "IndexError", val |-> 0, st |-> ld.st, parsed |-> ld.parsed]
         ELSE [out |-> "ok", val |-> ld.st.tables[table_vector][Age], st |-> ld.st,
               parsed |-> ld.parsed]
    ELSE [out |-> "ok", val |-> QDEN, st |-> ld.st, parsed |-> ld.parsed]

\* a lookup whose upper bound test is Age > size: age = size reads past the end
QxLookupOffByOne(ld, Age, table_id, table_vector) ==
    IF ld.out # "ok"
    THEN [out |-> ld.out, val |-> 0, st |-> ld.st, parsed |-> ld.parsed]
    ELSE IF table_id \in {TDAV1994, TDAV2008}
    THEN IF table_vector \notin DOMAIN ld.st.tables
         THEN [out |-> "KeyError", val |-> 0, st |-> ld.st, parsed |-> ld.parsed]
         ELSE IF Age < 0 \/ Age > Cardinality(DOMAIN ld.st.tables[table_vector])
         THEN [out |-> "IndexError", val |-> 0, st |-> ld.st, parsed |-> ld.parsed]
         ELSE [out |-> "ok",
               val |-> IF Age \in DOMAIN ld.st.tables[table_vector]
                       THEN ld.st.tables[table_vector][Age] ELSE 0,
               st |-> ld.st, parsed |-> ld.parsed]
    ELSE [out |-> "NotImplemented", val |-> 0, st |-> ld.st, parsed |-> ld.parsed]

\* Act_qx past the loader call, whose result is ld
QxLookup(ld, Age, table_id, table_vector) ==
    IF ld.out # "ok"
    THEN [out |-> ld.out, val |-> 0, st |-> ld.st, parsed |-> ld.parsed]
    ELSE IF table_id \in {TDAV1994, TDAV2008}
    THEN IF table_vector \notin DOMAIN ld.st.tables
         THEN [out |-> "KeyError", val |-> 0, st |-> ld.st, parsed |-> ld.parsed]
         ELSE IF Age < 0 \/ Age >= Cardinality(DOMAIN ld.st.tables[table_vector])
         THEN [out |-> "IndexError", val |-> 0, st |-> ld.st, parsed |-> ld.parsed]
         ELSE [out |-> "ok", val |-> ld.st.tables[table_vector][Age], st |-> ld.st,
               parsed |-> ld.parsed]
    ELSE [out |-> "NotImplemented", val |-> 0, st |-> ld.st, parsed |-> ld.parsed]

\* Act_qx on the store st with the source `file` at hand: the outcome, the
\* rate, the store afterwards and whether the source was parsed.
Act_qx(st, file, Age, Sex, TableId) ==
    QxLookup(_load_mortality_tables_if_needed(st, file), Age, NormTable(TableId),
             NormTable(TableId) \o <<"_">> \o NormSex(Sex))

-----------------------------------------------------------------------------
(* Vector builders.  A builder's result is [out, vec, st, qx, parses]:     *)
(* the outcome, the vector (a function on 0..limit), the store afterwards, *)
(* the number of Act_qx calls it made and the number of source parses.     *)

Raise(e, st, qx, parses) ==
    [out |-> e, vec |-> <<>>, st |-> st, qx |-> qx, parses |-> parses]

B2N(b) == IF b THEN 1 ELSE 0

Limit(EndAge) == IF EndAge = -1 THEN MAX_AGE ELSE EndAge

\* the loop of Vec_lx from index i on; r is Act_qx(i - 1, ...)
RECURSIVE LxLoop(_, _, _, _, _, _, _, _, _)
\* a step that multiplies by (1 + qx)
LxStepPlus(r, file, Sex, TableId, limit, i, vec, qx, parses) ==
    IF r.out # "ok"
    THEN Raise(r.out, r.st, qx + 1, parses + B2N(r.parsed))
    ELSE LxLoop(r.st, file, Sex, TableId, limit, i + 1,
                [vec EXCEPT ![i] =
                    _excel_round(vec[i - 1] * (QDEN + r.val), QDEN, ROUND_LX)],
                qx + 1, parses + B2N(r.parsed))

LxStep(r, file, Sex, TableId, limit, i, vec, qx, parses) ==
    IF r.out # "ok"
    THEN Raise(r.out, r.st, qx + 1, parses + B2N(r.parsed))
    ELSE LxLoop(r.st, file, Sex, TableId, limit, i + 1,
                [vec EXCEPT ![i] =
                    _excel_round(vec[i - 1] * (QDEN - r.val), QDEN, ROUND_LX)],
                qx + 1, parses + B2N(r.parsed))

LxLoop(st, file, Sex, TableId, limit, i, vec, qx, parses) ==
    IF i > limit
    THEN [out |-> "ok", vec |-> vec, st |-> st, qx |-> qx, parses |-> parses]
    ELSE LxStep(Act_qx(st, file, i - 1, Sex, TableId),
                file, Sex, TableId, limit, i, vec, qx, parses)

\* a builder without the limit test
Vec_lxNoCheck(st, file, EndAge, Sex, TableId) ==
    LxLoop(st, file, Sex, TableId, Limit(EndAge), 1,
           [i \in 0..Limit(EndAge) |-> IF i = 0 THEN 1000000 ELSE 0], 0, 0)

Vec_lx(st, file, EndAge, Sex, TableId) ==
    IF Limit(EndAge) < 0 THEN Raise("EndAgeInvalid", st, 0, 0)
    ELSE LxLoop(st, file, Sex, TableId, Limit(EndAge), 1,
                [i \in 0..Limit(EndAge) |-> IF i = 0 THEN 1000000 ELSE 0], 0, 0)

\* float(vec[Age]) on a builder's result b
PickAt(b, Age, idx) ==
    IF idx < 0
    THEN [out |-> "IndexError", val |-> 0, st |-> b.st, qx |-> b.qx, parses |-> b.parses]
    ELSE [out |-> "ok", val |-> b.vec[idx], st |-> b.st, qx |-> b.qx,
          parses |-> b.parses]

Pick(b, Age) ==
    IF b.out # "ok"
    THEN [out |-> b.out, val |-> 0, st |-> b.st, qx |-> b.qx, parses |-> b.parses]
    ELSE PickAt(b, Age, PyIndex(Age, Cardinality(DOMAIN b.vec)))

Act_lx(st, file, Age, Sex, TableId) == Pick(Vec_lx(st, file, Age, Sex, TableId), Age)

\* the loop of Vec_tx over tempLx
TxOf(tempLx, limit) ==
    IF tempLx.out # "ok" THEN tempLx
    ELSE [tempLx EXCEPT !.vec =
            [i \in 0..limit |->
                IF i < limit
                THEN _excel_round(tempLx.vec[i] - tempLx.vec[i + 1], 1, ROUND_TX)
                ELSE 0]]

Vec_tx(st, file, EndAge, Sex, TableId) ==
    IF Limit(EndAge) < 0 THEN Raise("EndAgeInvalid", st, 0, 0)
    ELSE TxOf(Vec_lx(st, file, Limit(EndAge), Sex, TableId), Limit(EndAge))

Act_tx(st, file, Age, Sex, TableId) == Pick(Vec_tx(st, file, Age, Sex, TableId), Age)

\* v = 1.0 / (1.0 + InterestRate) as a fraction vn/vd with vd >= 0
DiscountNum(InterestRate) == IF InterestRate.n + InterestRate.d < 0
                             THEN -InterestRate.d ELSE InterestRate.d
DiscountDen(InterestRate) == IF InterestRate.n + InterestRate.d < 0
                             THEN -(InterestRate.n + InterestRate.d)
                             ELSE InterestRate.n + InterestRate.d

\* a loop that accrues instead of discounting: lx[i] / v^i
DxOfAccrue(tempLx, limit, vn, vd) ==
    IF tempLx.out # "ok" THEN tempLx
    ELSE [tempLx EXCEPT !.vec =
            [i \in 0..limit |->
                _excel_round_prod(tempLx.vec[i], Pow(vd, i), Pow(vn, i), ROUND_DX)]]

\* the loop of Vec_Dx over tempLx
DxOf(tempLx, limit, vn, vd) ==
    IF tempLx.out # "ok" THEN tempLx
    ELSE [tempLx EXCEPT !.vec =
            [i \in 0..limit |->
                _excel_round_prod(tempLx.vec[i], Pow(vn, i), Pow(vd, i), ROUND_DX)]]

Vec_Dx(st, file, EndAge, Sex, TableId, InterestRate) ==
    IF Limit(EndAge) < 0 THEN Raise("EndAgeInvalid", st, 0, 0)
    ELSE IF DiscountDen(InterestRate) = 0 THEN Raise("ZeroDivisionError", st, 0, 0)
    ELSE DxOf(Vec_lx(st, file, Limit(EndAge), Sex, TableId), Limit(EndAge),
              DiscountNum(InterestRate), DiscountDen(InterestRate))

\* the loop of Vec_Cx over tempTx
CxOf(tempTx, limit, vn, vd) ==
    IF tempTx.out # "ok" THEN tempTx
    ELSE [tempTx EXCEPT !.vec =
            [i \in 0..limit |->
                IF i < limit
                THEN _excel_round_prod(tempTx.vec[i], Pow(vn, i + 1), Pow(vd, i + 1), ROUND_CX)
                ELSE 0]]

Vec_Cx(st, file, EndAge, Sex, TableId, InterestRate) ==
    IF Limit(EndAge) < 0 THEN Raise("EndAgeInvalid", st, 0, 0)
    ELSE IF DiscountDen(InterestRate) = 0 THEN Raise("ZeroDivisionError", st, 0, 0)
    ELSE CxOf(Vec_tx(st, file, Limit(EndAge), Sex, TableId), Limit(EndAge),
              DiscountNum(InterestRate), DiscountDen(InterestRate))

\* vec[MAX_AGE] = temp[MAX_AGE]; vec[i] = round(vec[i + 1] + temp[i]) downwards
RECURSIVE BackSum(_, _, _, _)
BackSum(temp, vec, i, digits) ==
    IF i < 0 THEN vec
    ELSE BackSum(temp,
                 [vec EXCEPT ![i] = _excel_round(vec[i + 1] + temp[i], 1, digits)],
                 i - 1, digits)

BackOf(temp, digits) ==
    IF temp.out # "ok" THEN temp
    ELSE [temp EXCEPT !.vec =
            BackSum(temp.vec,
                    [i \in 0..MAX_AGE |-> IF i = MAX_AGE THEN temp.vec[MAX_AGE] ELSE 0],
                    MAX_AGE - 1, digits)]

\* rounds with ROUND_DX, as the source does
Vec_Nx(st, file, Sex, TableId, InterestRate) ==
    BackOf(Vec_Dx(st, file, -1, Sex, TableId, InterestRate), ROUND_DX)

Vec_Mx(st, file, Sex, TableId, InterestRate) ==
    BackOf(Vec_Cx(st, file, -1, Sex, TableId, InterestRate), ROUND_MX)

Vec_Rx(st, file, Sex, TableId, InterestRate) ==
    BackOf(Vec_Mx(st, file, Sex, TableId, InterestRate), ROUND_RX)

-----------------------------------------------------------------------------
(* The scalar cache *)

BuildCacheKey(Kind, Age, Sex, TableId, InterestRate, BirthYear, RetirementAge, Layer) ==
    Kind \o <<"_">> \o IntStr(Age) \o <<"_">> \o Sex \o <<"_">> \o TableId
         \o <<"_">> \o InterestRate.s \o <<"_">> \o IntStr(BirthYear)
         \o <<"_">> \o IntStr(RetirementAge) \o <<"_">> \o IntStr(Layer)

\* the vector builder an accessor of the given kind calls on a miss
Builder(Kind, st, file, Age, Sex, TableId, InterestRate) ==
    CASE Kind = <<"D","x">> -> Vec_Dx(st, file, Age, Sex, TableId, InterestRate)
      [] Kind = <<"C","x">> -> Vec_Cx(st, file, Age, Sex, TableId, InterestRate)
      [] Kind = <<"N","x">> -> Vec_Nx(st, file, Sex, TableId, InterestRate)
      [] Kind = <<"M","x">> -> Vec_Mx(st, file, Sex, TableId, InterestRate)
      [] Kind = <<"R","x">> -> Vec_Rx(st, file, Sex, TableId, InterestRate)

EmptyMap == [k \in {} |-> 0]

\* cache = None before the first use; {} after InitializeCache
NoCache == [none |-> TRUE, d |-> EmptyMap]
NewCache == [none |-> FALSE, d |-> EmptyMap]

\* _ensure_cache
_ensure_cache(c) == IF c.none THEN NewCache ELSE c

\* a store that is forgotten
CacheStoreDrop(d, key, value) == d

\* a store that evicts what was there
CacheStoreOnly(d, key, value) == [k \in {key} |-> value]

\* cache[key] = value
CacheStore(d, key, value) ==
    [k \in (DOMAIN d) \cup {key} |-> IF k = key THEN value ELSE d[k]]

\* a miss that stores whatever came back, a failure included
MissStoresAlways(c0, key, r) ==
    [out |-> r.out, val |-> r.val,
     cache |-> [c0 EXCEPT !.d = CacheStore(c0.d, key, r.val)],
     st |-> r.st, key |-> key, hit |-> FALSE, built |-> 1,
     qx |-> r.qx, parses |-> r.parses]

\* The body shared by Act_Dx, Act_Cx, Act_Nx, Act_Mx and Act_Rx, on the
\* cache c and the store st: the outcome, the value, the cache and the store
\* afterwards, whether the key was found, and what the builder did.
\* a miss: r is float(vec[Age]) on the builder's vector
Miss(c0, key, r) ==
    [out |-> r.out, val |-> r.val,
     cache |-> IF r.out = "ok" THEN [c0 EXCEPT !.d = CacheStore(c0.d, key, r.val)]
               ELSE c0,
     st |-> r.st, key |-> key, hit |-> FALSE, built |-> 1,
     qx |-> r.qx, parses |-> r.parses]

AccessorOn(c0, key, st, file, Kind, Age, Sex, TableId, InterestRate) ==
    IF key \in DOMAIN c0.d
    THEN [out |-> "ok", val |-> c0.d[key], cache |-> c0, st |-> st, key |-> key,
          hit |-> TRUE, built |-> 0, qx |-> 0, parses |-> 0]
    ELSE Miss(c0, key, Pick(Builder(Kind, st, file, Age, Sex, TableId, InterestRate), Age))

Accessor(c, st, file, Kind, Age, Sex, TableId, InterestRate, BirthYear, RetirementAge, Layer) ==
    AccessorOn(_ensure_cache(c),
               BuildCacheKey(Kind, Age, Sex, TableId, InterestRate,
                             BirthYear, RetirementAge, Layer),
               st, file, Kind, Age, Sex, TableId, InterestRate)

-----------------------------------------------------------------------------
(* Inputs *)

\* the steps of one behaviour between two resets
MaxCalls == 2

T(ip, fp) == [ip |-> ip, fp |-> fp]
Rec(xy, cols) == [hasXy |-> TRUE, xy |-> xy, cols |-> cols]

TagM94 == TDAV1994 \o <<"_","M">>
TagF94 == TDAV1994 \o <<"_","F">>
Tagm08 == <<"d","a","v","2","0","0","8","_","t","_","m">>
TagF08 == TDAV2008 \o <<"_","F">>

Cols2(m, f) == [t \in {TagM94, TagF94} |-> IF t = TagM94 THEN m ELSE f]
Cols4(m, f, m8, f8) ==
    [t \in {TagM94, TagF94, Tagm08, TagF08} |->
        CASE t = TagM94 -> m [] t = TagF94 -> f [] t = Tagm08 -> m8 [] t = TagF08 -> f8]

NoFile == [exists |-> FALSE, records |-> <<>>]
EmptyFile == [exists |-> TRUE, records |-> <<>>]

\* two columns, ages 0..2: shorter than MAX_AGE, the rest stays 0.0
FileA == [exists |-> TRUE, records |->
    << Rec(0, Cols2(T(0, 125), T(0, 100))),
       Rec(1, Cols2(T(0, 250), T(0, 200))),
       Rec(2, Cols2(T(0, 500), T(0, 333))) >>]

\* four columns (one tag in lower case with a rate of 1 at age 1, one with a
\* rate above 1), ages 0..MAX_AGE+1, one record without an age
FileB == [exists |-> TRUE, records |->
    << Rec(0, Cols4(T(0, 10), T(0, 5), T(0, 20), T(1, 500))),
       [hasXy |-> FALSE, xy |-> 0,
        cols |-> Cols4(T(0, 999), T(0, 999), T(0, 999), T(0, 999))] >>
    \o [i \in 1..(MAX_AGE + 1) |->
          Rec(i, Cols4(T(0, 100 * i + 7), T(0, 50 * i),
                       IF i = 1 THEN T(1, 0) ELSE T(0, 333), T(0, 500)))]]

Sources == {NoFile, EmptyFile, FileA, FileB}

R025 == [n |-> 1, d |-> 4, s |-> <<"0",".","2","5">>]
R100 == [n |-> 1, d |-> 1, s |-> <<"1",".","0">>]
R000 == [n |-> 0, d |-> 1, s |-> <<"0",".","0">>]

Kinds == {<<"D","x">>, <<"C","x">>, <<"N","x">>, <<"M","x">>, <<"R","x">>}

SexM == <<"M">>
SexF == <<"F">>
TKLV == <<"K","L","V">>

\* accessor inputs
AccAges == {1, MAX_AGE + 2}
AccSexes == {<<"m">>}
AccTables == {TDAV1994, TKLV}
AccRates == {R025}

-----------------------------------------------------------------------------
(* State *)

VARIABLES
    source,         \* MortalityTables.xml as it is on disk
    tables_loaded,  \* _tables_loaded
    qx_tables,      \* _qx_tables
    cache,          \* cache
    last,           \* the most recent call: its arguments and its result
    hist,           \* per key, since the last reset: what its calls did
    calls,          \* accessor calls since the last reset
    callers         \* per thread: the call it is in and its position there

vars == <<source, tables_loaded, qx_tables, cache, last, hist, calls, callers>>

Store == [loaded |-> tables_loaded, tables |-> qx_tables]

\* the threads that call into the engine at the same time
Threads == {1, 2}

\* a thread outside any call
Idle == [pc |-> "idle", call |-> "none", Kind |-> <<>>, Age |-> 0, Sex |-> <<>>,
         TableId |-> <<>>, Rate |-> R000, key |-> <<>>, i |-> 0, out |-> "ok", val |-> 0]

Blank == [op |-> "none", Kind |-> <<>>, Age |-> 0, Sex |-> <<>>, TableId |-> <<>>,
          Rate |-> R000, key |-> <<>>, out |-> "ok", val |-> 0, vec |-> <<>>,
          hit |-> FALSE, built |-> 0, qx |-> 0, parses |-> 0, wasLoaded |-> FALSE]

Init ==
    /\ source \in Sources
    /\ tables_loaded = FALSE
    /\ qx_tables = EmptyMap
    /\ cache = NoCache
    /\ last = Blank
    /\ hist = EmptyMap
    /\ calls = 0
    /\ callers = [t \in Threads |-> Idle]

\* the table source is edited, removed or restored on disk
SourceChange ==
    /\ \E f \in Sources \ {source} : source' = f
    /\ UNCHANGED <<tables_loaded, qx_tables, cache, last, hist, calls, callers>>

\* a reset that only creates the cache when there is none
InitializeCacheIfNone ==
    /\ cache' = _ensure_cache(cache)
    /\ last' = [Blank EXCEPT !.op = "InitializeCache",
                             !.val = Cardinality(DOMAIN cache.d)]
    /\ hist' = EmptyMap
    /\ calls' = 0
    /\ UNCHANGED <<source, tables_loaded, qx_tables, callers>>

InitializeCache ==
    /\ cache' = NewCache
    /\ last' = [Blank EXCEPT !.op = "InitializeCache",
                             !.val = Cardinality(DOMAIN cache.d)]
    /\ hist' = EmptyMap
    /\ calls' = 0
    /\ UNCHANGED <<source, tables_loaded, qx_tables, callers>>

\* History of a key since the last reset: builds, the builder runs; rets, the
\* calls that returned; v, the first value returned; late, the builder runs
\* after the first return; lost, the calls that failed after the first return;
\* same, whether every return gave v.
HistNote(h, r) ==
    LET old == IF r.key \in DOMAIN h THEN h[r.key]
               ELSE [builds |-> 0, rets |-> 0, v |-> 0, late |-> 0, lost |-> 0,
                     same |-> TRUE]
        new == [builds |-> old.builds + r.built,
                rets |-> old.rets + (IF r.out = "ok" THEN 1 ELSE 0),
                v |-> IF old.rets = 0 /\ r.out = "ok" THEN r.val ELSE old.v,
                late |-> old.late + (IF old.rets > 0 THEN r.built ELSE 0),
                lost |-> old.lost + (IF old.rets > 0 /\ r.out # "ok" THEN 1 ELSE 0),
                same |-> old.same /\ (old.rets > 0 /\ r.out = "ok" => r.val = old.v)]
    IN  [k \in (DOMAIN h) \cup {r.key} |-> IF k = r.key THEN new ELSE h[k]]

Returned(r, Kind, Age, Sex, TableId, InterestRate) ==
        /\ cache' = r.cache
        /\ tables_loaded' = r.st.loaded
        /\ qx_tables' = r.st.tables
        /\ last' = [Blank EXCEPT !.op = "Act", !.Kind = Kind, !.Age = Age, !.Sex = Sex,
                                 !.TableId = TableId, !.Rate = InterestRate,
                                 !.key = r.key, !.out = r.out, !.val = r.val,
                                 !.hit = r.hit, !.built = r.built, !.qx = r.qx,
                                 !.parses = r.parses, !.wasLoaded = tables_loaded]
        /\ hist' = HistNote(hist, r)
        /\ calls' = calls + 1
        /\ UNCHANGED <<source, callers>>

Call(Kind, Age, Sex, TableId, InterestRate) ==
    /\ calls < MaxCalls
    /\ Returned(Accessor(cache, Store, source, Kind, Age, Sex, TableId, InterestRate,
                         0, 0, 1),
                Kind, Age, Sex, TableId, InterestRate)

Act_Dx == \E a \in AccAges, s \in AccSexes, t \in AccTables, i \in AccRates :
            Call(<<"D","x">>, a, s, t, i)
Act_Cx == \E a \in AccAges, s \in AccSexes, t \in AccTables, i \in AccRates :
            Call(<<"C","x">>, a, s, t, i)
Act_Nx == \E a \in AccAges, s \in AccSexes, t \in AccTables, i \in AccRates :
            Call(<<"N","x">>, a, s, t, i)
Act_Mx == \E a \in AccAges, s \in AccSexes, t \in AccTables, i \in AccRates :
            Call(<<"M","x">>, a, s, t, i)
Act_Rx == \E a \in AccAges, s \in AccSexes, t \in AccTables, i \in AccRates :
            Call(<<"R","x">>, a, s, t, i)

Next ==
    \/ SourceChange
    \/ InitializeCache
    \/ Act_Dx
    \/ Act_Cx
    \/ Act_Nx
    \/ Act_Mx
    \/ Act_Rx

Spec == Init /\ [][Next]_vars

\* The accessors at the ages around the ends of the age axis
EdgeAges == {-2, -1, MAX_AGE + 1, MAX_AGE + 2}

CallEdge(Kind) ==
    \E a \in EdgeAges, s \in AccSexes, i \in AccRates : Call(Kind, a, s, TDAV1994, i)

Act_Dx_Edge == CallEdge(<<"D","x">>)
Act_Cx_Edge == CallEdge(<<"C","x">>)
Act_Nx_Edge == CallEdge(<<"N","x">>)
Act_Mx_Edge == CallEdge(<<"M","x">>)
Act_Rx_Edge == CallEdge(<<"R","x">>)

NextEdge ==
    \/ Act_Dx_Edge
    \/ Act_Cx_Edge
    \/ Act_Nx_Edge
    \/ Act_Mx_Edge
    \/ Act_Rx_Edge

SpecEdge == Init /\ [][NextEdge]_vars

\* accessor calls whose sex and table arguments contain the separator of the
\* cache key: ("M", "DAV1994_T") and ("M_DAV1994", "T") give the same key
KeyAges == {0, 1, 2}
KeySexes == {<<"M">>, <<"M","_","D","A","V","1","9","9","4">>}
KeyTables == {TDAV1994, <<"T">>}

CallKey(Kind) ==
    \E a \in KeyAges, sx \in KeySexes, tb \in KeyTables : Call(Kind, a, sx, tb, R025)

Act_Dx_Key == CallKey(<<"D","x">>)
Act_Cx_Key == CallKey(<<"C","x">>)

NextKey ==
    \/ InitializeCache
    \/ Act_Dx_Key
    \/ Act_Cx_Key

SpecKey == Init /\ [][NextKey]_vars

-----------------------------------------------------------------------------
(* The table store and the builders called directly *)

QxAges == {-1, 0, 1, MAX_AGE, MAX_AGE + 1, MAX_AGE + 2}
QxSexes == {<<"M">>, <<"m">>, <<" ","m"," ">>, <<"F">>, <<"W">>, <<"M","M">>}
QxTables == {TDAV1994, TDAV2008, <<" ","d","a","v","2","0","0","8","_","t">>, TKLV}

VecEnds == -2..(MAX_AGE + 2)
VecSexes == {<<"M">>, <<"f">>}
VecTables == {TDAV1994, TDAV2008, TKLV}
VecRates == {R025}

\* a call that returns a scalar: r is [out, val, st, ...]
Scalar(op, r, Age, Sex, TableId, qx, parses) ==
    /\ tables_loaded' = r.st.loaded
    /\ qx_tables' = r.st.tables
    /\ last' = [Blank EXCEPT !.op = op, !.Age = Age, !.Sex = Sex, !.TableId = TableId,
                             !.out = r.out, !.val = r.val, !.qx = qx,
                             !.parses = parses, !.wasLoaded = tables_loaded]
    /\ UNCHANGED <<source, cache, hist, calls, callers>>

\* a call that returns a vector: r is [out, vec, st, qx, parses]
Vector(op, r, EndAge, Sex, TableId, InterestRate) ==
    /\ tables_loaded' = r.st.loaded
    /\ qx_tables' = r.st.tables
    /\ last' = [Blank EXCEPT !.op = op, !.Age = EndAge, !.Sex = Sex,
                             !.TableId = TableId, !.Rate = InterestRate,
                             !.out = r.out, !.vec = r.vec, !.qx = r.qx,
                             !.parses = r.parses, !.wasLoaded = tables_loaded]
    /\ UNCHANGED <<source, cache, hist, calls, callers>>

QxDone(r, Age, Sex, TableId) ==
    Scalar("Act_qx", r, Age, Sex, TableId, 1, B2N(r.parsed))

Call_Act_qx ==
    \E a \in QxAges, s \in QxSexes, t \in QxTables :
        QxDone(Act_qx(Store, source, a, s, t), a, s, t)

PickDone(op, r, Age, Sex, TableId) == Scalar(op, r, Age, Sex, TableId, r.qx, r.parses)

Call_Act_lx ==
    \E a \in VecEnds, s \in VecSexes, t \in VecTables :
        PickDone("Act_lx", Act_lx(Store, source, a, s, t), a, s, t)

Call_Act_tx ==
    \E a \in VecEnds, s \in VecSexes, t \in VecTables :
        PickDone("Act_tx", Act_tx(Store, source, a, s, t), a, s, t)

Call_Vec_lx ==
    \E e \in VecEnds, s \in VecSexes, t \in VecTables :
        Vector("Vec_lx", Vec_lx(Store, source, e, s, t), e, s, t, R000)

Call_Vec_tx ==
    \E e \in VecEnds, s \in VecSexes, t \in VecTables :
        Vector("Vec_tx", Vec_tx(Store, source, e, s, t), e, s, t, R000)

Call_Vec_Dx ==
    \E e \in VecEnds, s \in VecSexes, t \in VecTables, i \in VecRates :
        Vector("Vec_Dx", Vec_Dx(Store, source, e, s, t, i), e, s, t, i)

Call_Vec_Cx ==
    \E e \in VecEnds, s \in VecSexes, t \in VecTables, i \in VecRates :
        Vector("Vec_Cx", Vec_Cx(Store, source, e, s, t, i), e, s, t, i)

\* the table store under rate lookups and a builder, the source changing on disk
NextStore ==
    \/ SourceChange
    \/ Call_Act_qx
    \/ Call_Vec_lx

SpecStore == Init /\ [][NextStore]_vars

\* the builders on a source that stays as it is
NextVec ==
    \/ Call_Vec_lx
    \/ Call_Vec_tx
    \/ Call_Vec_Dx
    \/ Call_Vec_Cx
    \/ Call_Act_lx
    \/ Call_Act_tx

SpecVec == Init /\ [][NextVec]_vars

Call_Vec_Nx ==
    \E s \in VecSexes, t \in VecTables, i \in VecRates :
        Vector("Vec_Nx", Vec_Nx(Store, source, s, t, i), -1, s, t, i)

Call_Vec_Mx ==
    \E s \in VecSexes, t \in VecTables, i \in VecRates :
        Vector("Vec_Mx", Vec_Mx(Store, source, s, t, i), -1, s, t, i)

Call_Vec_Rx ==
    \E s \in VecSexes, t \in VecTables, i \in VecRates :
        Vector("Vec_Rx", Vec_Rx(Store, source, s, t, i), -1, s, t, i)

\* the discounted builders and the backward sums built on them
NextBack ==
    \/ Call_Vec_Dx
    \/ Call_Vec_Cx
    \/ Call_Vec_Nx
    \/ Call_Vec_Mx
    \/ Call_Vec_Rx

SpecBack == Init /\ [][NextBack]_vars

-----------------------------------------------------------------------------
(* Present values.  A float of the program is carried as the exact rational *)
(* [n, d] in lowest terms with d > 0; a factor function's result is         *)
(* [out, val], val the rational it returns.                                 *)

Abs(a) == IF a < 0 THEN -a ELSE a

RECURSIVE GCD(_, _)
GCD(a, b) == IF b = 0 THEN a ELSE GCD(b, a % b)

\* n/d in lowest terms, d # 0
RatBy(n, d, g) == IF d < 0 THEN [n |-> -(n \div g), d |-> -(d \div g)]
                  ELSE [n |-> n \div g, d |-> d \div g]
Rat(n, d) == RatBy(n, d, GCD(Abs(n), Abs(d)))

RInt(i) == [n |-> i, d |-> 1]
RAdd(a, b) == Rat(a.n * b.d + b.n * a.d, a.d * b.d)
RSub(a, b) == Rat(a.n * b.d - b.n * a.d, a.d * b.d)
RMul(a, b) == Rat(a.n * b.n, a.d * b.d)
\* a / b, b # 0
RDiv(a, b) == Rat(a.n * b.d, a.d * b.n)
RLt(a, b) == a.n * b.d < b.n * a.d

RECURSIVE RPow(_, _)
RPow(a, e) == IF e = 0 THEN RInt(1) ELSE RMul(a, RPow(a, e - 1))

\* the float an interest rate record stands for
RateOf(InterestRate) == Rat(InterestRate.n, InterestRate.d)

Ret(val) == [out |-> "ok", val |-> val]
Err(e) == [out |-> e, val |-> RInt(0)]

\* the loop of Act_DeductionTerm from l on; den is 1.0 + (l / k) * InterestRate
RECURSIVE DedLoop(_, _, _, _)
DedStep(k, rate, l, deduction, den) ==
    IF den.n = 0 THEN Err("ZeroDivisionError")
    ELSE DedLoop(k, rate, l + 1, RAdd(deduction, RDiv(Rat(l, k), den)))

DedLoop(k, rate, l, deduction) ==
    IF l >= k THEN Ret(deduction)
    ELSE DedStep(k, rate, l, deduction, RAdd(RInt(1), RMul(Rat(l, k), rate)))

\* deduction = deduction * (1.0 + InterestRate) / k
DedScale(r, k, rate) ==
    IF r.out # "ok" THEN r
    ELSE Ret(RDiv(RMul(r.val, RAdd(RInt(1), rate)), RInt(k)))

\* a deduction term that forgets the final division by k
Act_DeductionTermNoDiv(k, InterestRate) ==
    IF k > 0 THEN DedLoop(k, RateOf(InterestRate), 0, RInt(0)) ELSE Ret(RInt(0))

Act_DeductionTerm(k, InterestRate) ==
    IF k > 0
    THEN DedScale(DedLoop(k, RateOf(InterestRate), 0, RInt(0)), k, RateOf(InterestRate))
    ELSE Ret(RInt(0))

\* the branch of Act_ag_k for k > 0 and InterestRate > 0; d is the deduction term
AgOf(g, v, d) ==
    IF d.out # "ok" THEN d
    ELSE Ret(RSub(RDiv(RSub(RInt(1), RPow(v, g)), RSub(RInt(1), v)),
                  RMul(d.val, RSub(RInt(1), RPow(v, g)))))

Act_ag_k(g, InterestRate, k) ==
    IF InterestRate.n + InterestRate.d = 0 THEN Err("ZeroDivisionError")
    ELSE IF k > 0
    THEN IF RLt(RInt(0), RateOf(InterestRate))
         THEN AgOf(g, Rat(InterestRate.d, InterestRate.n + InterestRate.d),
                   Act_DeductionTerm(k, InterestRate))
         ELSE Ret(RInt(g))
    ELSE Ret(RInt(0))

\* A factor function that reads commutation values works on the cache c and
\* the store st; its result is [out, val, c, st].  A failure keeps what the
\* calls before it stored.
Fail(e, c, st) == [out |-> e, val |-> RInt(0), c |-> c, st |-> st]
Done(val, c, st) == [out |-> "ok", val |-> val, c |-> c, st |-> st]

Req(Kind, Age) == [Kind |-> Kind, Age |-> Age]
KDx == <<"D","x">>
KNx == <<"N","x">>
KMx == <<"M","x">>

\* the accessor calls reqs[i..], made in order with the default birth year,
\* retirement age and layer, up to the first that fails: [out, vals, c, st]
RECURSIVE GetAll(_, _, _, _, _, _, _, _, _)
GetStep(r, file, Sex, TableId, InterestRate, reqs, i, vals) ==
    IF r.out # "ok" THEN [out |-> r.out, vals |-> vals, c |-> r.cache, st |-> r.st]
    ELSE GetAll(r.cache, r.st, file, Sex, TableId, InterestRate, reqs, i + 1,
                Append(vals, r.val))

GetAll(c, st, file, Sex, TableId, InterestRate, reqs, i, vals) ==
    IF i > Len(reqs) THEN [out |-> "ok", vals |-> vals, c |-> c, st |-> st]
    ELSE GetStep(Accessor(c, st, file, reqs[i].Kind, reqs[i].Age, Sex, TableId,
                          InterestRate, 0, 0, 1),
                 file, Sex, TableId, InterestRate, reqs, i, vals)

\* (nx_age - nx_agen) / dx_age - Act_DeductionTerm(k, i) * (1.0 - dx_agen / dx_age)
\* on g = [dx_age, dx_agen, nx_age, nx_agen]; d is the deduction term
AxnVal(g, d) ==
    IF d.out # "ok" THEN Fail(d.out, g.c, g.st)
    ELSE Done(RSub(Rat(g.vals[3] - g.vals[4], g.vals[1]),
                   RMul(d.val, RSub(RInt(1), Rat(g.vals[2], g.vals[1])))),
              g.c, g.st)

AxnOf(g, k, InterestRate) ==
    IF g.out # "ok" THEN Fail(g.out, g.c, g.st)
    ELSE IF g.vals[1] = 0 THEN Fail("ZeroDivisionError", g.c, g.st)
    ELSE AxnVal(g, Act_DeductionTerm(k, InterestRate))

Act_axn_k(c, st, file, Age, n, Sex, TableId, InterestRate, k) ==
    IF k > 0
    THEN AxnOf(GetAll(c, st, file, Sex, TableId, InterestRate,
                      <<Req(KDx, Age), Req(KDx, Age + n), Req(KNx, Age), Req(KNx, Age + n)>>,
                      1, <<>>),
               k, InterestRate)
    ELSE Done(RInt(0), c, st)

\* (Mx(Age) - Mx(Age + n)) / Dx(Age) on g = [mx_age, mx_agen, dx_age]
NGrAxOf(g) ==
    IF g.out # "ok" THEN Fail(g.out, g.c, g.st)
    ELSE IF g.vals[3] = 0 THEN Fail("ZeroDivisionError", g.c, g.st)
    ELSE Done(Rat(g.vals[1] - g.vals[2], g.vals[3]), g.c, g.st)

act_nGrAx(c, st, file, Age, n, Sex, TableId, InterestRate) ==
    NGrAxOf(GetAll(c, st, file, Sex, TableId, InterestRate,
                   <<Req(KMx, Age), Req(KMx, Age + n), Req(KDx, Age)>>, 1, <<>>))

-----------------------------------------------------------------------------
(* Premium calculation.  A policy is [x, sex, n, t, sum_insured, pay_freq], *)
(* a tariff [interest_rate, mortality_table, alpha, beta1, gamma1, gamma2,  *)
(* gamma3, k, modal_surcharge]; the loadings and amounts are rationals.     *)

NoPrem == [NormGrossAnnualPrem |-> RInt(0), GrossAnnualPrem |-> RInt(0),
           GrossModalPrem |-> RInt(0), Pxt |-> RInt(0)]

PremFail(e, c, st) == [out |-> e, prem |-> NoPrem, c |-> c, st |-> st]

\* the numerator shared by both implementations
PremNumerator(ngr, dx_xn, dx_x, ax_t, ax_n, tariff) ==
    RAdd(RAdd(RAdd(ngr, Rat(dx_xn, dx_x)), RMul(tariff.gamma1, ax_t)),
         RMul(tariff.gamma2, RSub(ax_n, ax_t)))

\* (1.0 - beta1) * ax_t - alpha * t
PremDenominator(ax_t, t, tariff) ==
    RSub(RMul(RSub(RInt(1), tariff.beta1), ax_t), RMul(tariff.alpha, RInt(t)))

\* pxt and the returned dictionary; ngr is the second act_nGrAx(x, n)
PremPxt(ax_t, dx, norm, ngr, policy, tariff) ==
    IF ngr.out # "ok" THEN PremFail(ngr.out, ngr.c, ngr.st)
    ELSE IF ax_t.val.n = 0 THEN PremFail("ZeroDivisionError", ngr.c, ngr.st)
    ELSE [out |-> "ok",
          prem |-> [NormGrossAnnualPrem |-> norm,
                    GrossAnnualPrem |-> RMul(policy.sum_insured, norm),
                    GrossModalPrem |->
                        RMul(RDiv(RAdd(RInt(1), tariff.modal_surcharge),
                                  RInt(policy.pay_freq)),
                             RAdd(RMul(policy.sum_insured, norm), tariff.k)),
                    Pxt |-> RDiv(RAdd(RAdd(ngr.val, Rat(dx.vals[2], dx.vals[1])),
                                      RMul(RMul(RInt(policy.t), tariff.alpha), norm)),
                                 ax_t.val)],
          c |-> ngr.c, st |-> ngr.st]

\* norm_gross_annual_prem, gross_annual_prem and gross_modal_prem
PremRest(ax_t, dx, ngr, numerator, denominator, file, policy, tariff) ==
    IF denominator.n = 0 THEN PremFail("ZeroDivisionError", ngr.c, ngr.st)
    ELSE IF policy.pay_freq = 0 THEN PremFail("ZeroDivisionError", ngr.c, ngr.st)
    ELSE PremPxt(ax_t, dx, RDiv(numerator, denominator),
                 act_nGrAx(ngr.c, ngr.st, file, policy.x, policy.n, policy.sex,
                           tariff.mortality_table, tariff.interest_rate),
                 policy, tariff)

PremNorm(ax_t, ax_n, dx, ngr, file, policy, tariff) ==
    IF ngr.out # "ok" THEN PremFail(ngr.out, ngr.c, ngr.st)
    ELSE IF dx.vals[1] = 0 THEN PremFail("ZeroDivisionError", ngr.c, ngr.st)
    ELSE PremRest(ax_t, dx, ngr,
                  PremNumerator(ngr.val, dx.vals[2], dx.vals[1], ax_t.val, ax_n.val, tariff),
                  PremDenominator(ax_t.val, policy.t, tariff),
                  file, policy, tariff)

\* dx is [dx_x, dx_xn]
PremNum(ax_t, ax_n, dx, file, policy, tariff) ==
    IF dx.out # "ok" THEN PremFail(dx.out, dx.c, dx.st)
    ELSE PremNorm(ax_t, ax_n, dx,
                  act_nGrAx(dx.c, dx.st, file, policy.x, policy.n, policy.sex,
                            tariff.mortality_table, tariff.interest_rate),
                  file, policy, tariff)

PremDx(ax_t, ax_n, file, policy, tariff) ==
    IF ax_n.out # "ok" THEN PremFail(ax_n.out, ax_n.c, ax_n.st)
    ELSE PremNum(ax_t, ax_n,
                 GetAll(ax_n.c, ax_n.st, file, policy.sex, tariff.mortality_table,
                        tariff.interest_rate,
                        <<Req(KDx, policy.x), Req(KDx, policy.x + policy.n)>>, 1, <<>>),
                 file, policy, tariff)

PremAxN(ax_t, file, policy, tariff) ==
    IF ax_t.out # "ok" THEN PremFail(ax_t.out, ax_t.c, ax_t.st)
    ELSE PremDx(ax_t,
                Act_axn_k(ax_t.c, ax_t.st, file, policy.x, policy.n, policy.sex,
                          tariff.mortality_table, tariff.interest_rate, 1),
                file, policy, tariff)

\* calc_premium_calculation: [out, prem, c, st]
calc_premium_calculation(c, st, file, policy, tariff) ==
    PremAxN(Act_axn_k(c, st, file, policy.x, policy.t, policy.sex,
                      tariff.mortality_table, tariff.interest_rate, 1),
            file, policy, tariff)

\* tariff.ModalSurcharge is not among the sources at hand; its test gives
\* 0.05 for monthly payment, the other values are stand-ins.
ModalSurcharge(PayFreq) ==
    CASE PayFreq = 2 -> Rat(1, 50)
      [] PayFreq = 4 -> Rat(3, 100)
      [] PayFreq = 12 -> Rat(1, 20)
      [] OTHER -> RInt(0)

\* outfunc.py works on the tariff parameters p of tariff.csv and on the
\* factor functions of basfunct, which is not among the sources at hand;
\* they are taken to be the factor functions above.

\* a K5 that does not test its denominator and yields 0 when it vanishes
OutNormValNoTest(axn_t, axn_n, dx, ngr, t, p) ==
    IF ngr.out # "ok" THEN Fail(ngr.out, ngr.c, ngr.st)
    ELSE IF PremDenominator(axn_t.val, t, p).n = 0 THEN Done(RInt(0), ngr.c, ngr.st)
    ELSE Done(RDiv(PremNumerator(ngr.val, dx.vals[1], dx.vals[2], axn_t.val,
                                 axn_n.val, p),
                   PremDenominator(axn_t.val, t, p)),
              ngr.c, ngr.st)

\* numerator, denominator and the quotient of K5; dx is [dx_xn, dx_x]
OutNormVal(axn_t, axn_n, dx, ngr, t, p) ==
    IF ngr.out # "ok" THEN Fail(ngr.out, ngr.c, ngr.st)
    ELSE IF PremDenominator(axn_t.val, t, p).n = 0
    THEN Fail("ZeroDivisionError", ngr.c, ngr.st)
    ELSE Done(RDiv(PremNumerator(ngr.val, dx.vals[1], dx.vals[2], axn_t.val,
                                 axn_n.val, p),
                   PremDenominator(axn_t.val, t, p)),
              ngr.c, ngr.st)

OutNormNgr(axn_t, axn_n, dx, file, age, sex, n, t, p) ==
    IF dx.out # "ok" THEN Fail(dx.out, dx.c, dx.st)
    ELSE IF dx.vals[2] = 0 THEN Fail("ZeroDivisionError", dx.c, dx.st)
    ELSE OutNormVal(axn_t, axn_n, dx,
                    act_nGrAx(dx.c, dx.st, file, age, n, sex, p.mortality_table,
                              p.interest_rate),
                    t, p)

OutNormDx(axn_t, axn_n, file, age, sex, n, t, p) ==
    IF axn_n.out # "ok" THEN axn_n
    ELSE OutNormNgr(axn_t, axn_n,
                    GetAll(axn_n.c, axn_n.st, file, sex, p.mortality_table,
                           p.interest_rate,
                           <<Req(KDx, age + n), Req(KDx, age)>>, 1, <<>>),
                    file, age, sex, n, t, p)

OutNormAxN(axn_t, file, age, sex, n, t, p) ==
    IF axn_t.out # "ok" THEN axn_t
    ELSE OutNormDx(axn_t,
                   Act_axn_k(axn_t.c, axn_t.st, file, age, n, sex, p.mortality_table,
                             p.interest_rate, 1),
                   file, age, sex, n, t, p)

\* outfunc.NormGrossAnnualPrem: [out, val, c, st]
NormGrossAnnualPrem(c, st, file, p, sa, age, sex, n, t, PayFreq) ==
    OutNormAxN(Act_axn_k(c, st, file, age, t, sex, p.mortality_table,
                         p.interest_rate, 1),
               file, age, sex, n, t, p)

\* an annual premium that forgets the sum insured
ScaledNot(rate, sa) == rate

Scaled(rate, sa) == IF rate.out # "ok" THEN rate ELSE [rate EXCEPT !.val = RMul(sa, rate.val)]

\* outfunc.GrossAnnualPrem
GrossAnnualPrem(c, st, file, p, sa, age, sex, n, t, PayFreq) ==
    Scaled(NormGrossAnnualPrem(c, st, file, p, sa, age, sex, n, t, PayFreq), sa)

ModalOf(annual, ms, pf, p) ==
    IF annual.out # "ok" THEN annual
    ELSE IF pf = 0 THEN Fail("ZeroDivisionError", annual.c, annual.st)
    ELSE [annual EXCEPT !.val = RMul(RDiv(RAdd(RInt(1), ms), RInt(pf)),
                                     RAdd(annual.val, p.k))]

\* outfunc.GrossModalPrem
GrossModalPrem(c, st, file, p, sa, age, sex, n, t, PayFreq) ==
    ModalOf(GrossAnnualPrem(c, st, file, p, sa, age, sex, n, t, PayFreq),
            ModalSurcharge(PayFreq), PayFreq, p)

OutPxtVal(dx, axn_t, rate, ngr, t, p) ==
    IF ngr.out # "ok" THEN ngr
    ELSE Done(RDiv(RAdd(RAdd(ngr.val, Rat(dx.vals[1], dx.vals[2])),
                        RMul(RMul(RInt(t), p.alpha), rate.val)),
                   axn_t.val),
              ngr.c, ngr.st)

OutPxtNgr(dx, axn_t, rate, file, age, sex, n, t, p) ==
    IF rate.out # "ok" THEN rate
    ELSE OutPxtVal(dx, axn_t, rate,
                   act_nGrAx(rate.c, rate.st, file, age, n, sex, p.mortality_table,
                             p.interest_rate),
                   t, p)

OutPxtRate(dx, axn_t, file, p, age, sex, n, t, PayFreq) ==
    IF axn_t.out # "ok" THEN axn_t
    ELSE IF axn_t.val.n = 0 THEN Fail("ZeroDivisionError", axn_t.c, axn_t.st)
    ELSE OutPxtNgr(dx, axn_t,
                   NormGrossAnnualPrem(axn_t.c, axn_t.st, file, p, RInt(1), age, sex,
                                       n, t, PayFreq),
                   file, age, sex, n, t, p)

OutPxtAx(dx, file, p, age, sex, n, t, PayFreq) ==
    IF dx.out # "ok" THEN Fail(dx.out, dx.c, dx.st)
    ELSE IF dx.vals[2] = 0 THEN Fail("ZeroDivisionError", dx.c, dx.st)
    ELSE OutPxtRate(dx,
                    Act_axn_k(dx.c, dx.st, file, age, t, sex, p.mortality_table,
                              p.interest_rate, 1),
                    file, p, age, sex, n, t, PayFreq)

\* outfunc.Pxt
Pxt(c, st, file, p, sa, age, sex, n, t, PayFreq) ==
    OutPxtAx(GetAll(c, st, file, sex, p.mortality_table, p.interest_rate,
                    <<Req(KDx, age + n), Req(KDx, age)>>, 1, <<>>),
             file, p, age, sex, n, t, PayFreq)

-----------------------------------------------------------------------------
(* Progression values.  limits is [min_age_flex, min_term_flex]; max_k is   *)
(* [none, v], none standing for the omitted argument; the result is         *)
(* [out, rows, c, st].                                                      *)

\* a remaining term that is not clamped
_max0Raw(v) == v

_max0(v) == IF v > 0 THEN v ELSE 0

RMin(a, b) == IF RLt(b, a) THEN b ELSE a
RMax(a, b) == IF RLt(a, b) THEN b ELSE a

ProgFail(e, c, st) == [out |-> e, rows |-> <<>>, c |-> c, st |-> st]

\* a default taken for every falsy max_k
MaxKOfFalsy(max_k, n) == IF max_k.none \/ max_k.v = 0 THEN n ELSE max_k.v

\* if max_k is None: max_k = n
MaxKOf(max_k, n) == IF max_k.none THEN n ELSE max_k.v

\* a flex phase entered when either condition holds
FlexPhaseEither(x, k, n, limits) ==
    IF (x + k) >= limits.min_age_flex \/ k >= (n - limits.min_term_flex) THEN 1 ELSE 0

\* a flex phase that holds only in the year it starts
FlexPhaseAtStart(x, k, n, limits) ==
    IF (x + k) >= limits.min_age_flex /\ k = (n - limits.min_term_flex) THEN 1 ELSE 0

\* flex_phase = 1 if ((x + k) >= min_age_flex and k >= (n - min_term_flex)) else 0
FlexPhase(x, k, n, limits) ==
    IF (x + k) >= limits.min_age_flex /\ k >= (n - limits.min_term_flex) THEN 1 ELSE 0

\* a deduction without the upper limit of 150
SurrenderDeductionNoCap(k, n, flex_phase, si, kDRx_pp) ==
    IF k > n \/ flex_phase = 1 THEN RInt(0)
    ELSE RMax(RInt(50), RMul(Rat(1, 100), RSub(si, kDRx_pp)))

\* IF(OR(k>n; flex_phase); 0; MIN(150; MAX(50; 1%*(SumInsured-kDRx_pp))))
SurrenderDeduction(k, n, flex_phase, si, kDRx_pp) ==
    IF k > n \/ flex_phase = 1 THEN RInt(0)
    ELSE RMin(RInt(150), RMax(RInt(50), RMul(Rat(1, 100), RSub(si, kDRx_pp))))

\* a paid-up sum that still divides in the year k = t
SumInsuredPuLate(k, n, t, si, kVx_MRV, kVx_pu) ==
    IF k > n THEN RInt(0)
    ELSE IF k <= t THEN (IF kVx_pu.n # 0 THEN RDiv(kVx_MRV, kVx_pu) ELSE RInt(0))
    ELSE si

\* IFERROR( IF(k>n;0; IF(k<t; kVx_MRV/kVx_pu; SumInsured)); 0); the division
\* is guarded, so the handler has nothing to catch
SumInsuredPu(k, n, t, si, kVx_MRV, kVx_pu) ==
    IF k > n THEN RInt(0)
    ELSE IF k < t THEN (IF kVx_pu.n # 0 THEN RDiv(kVx_MRV, kVx_pu) ELSE RInt(0))
    ELSE si

\* the row appended for k, from its factors and reserves
RowRec(k, Axn, axn, axt, kVx_pp, kDRx_pp, kVx_pu, kVx_MRV, flex_phase, sd, policy) ==
    [k |-> k, Axn |-> Axn, axn |-> axn, axt |-> axt, kVx_pp |-> kVx_pp,
     kDRx_pp |-> kDRx_pp, kVx_pu |-> kVx_pu, kVx_MRV |-> kVx_MRV,
     Flex_phase |-> flex_phase, Surrender_deduction |-> sd,
     Surrender_value |-> RMax(RInt(0), RSub(kVx_MRV, sd)),
     SumInsured_pu |-> SumInsuredPu(k, policy.n, policy.t, policy.sum_insured,
                                    kVx_MRV, kVx_pu)]

RowRes(k, Axn, axn, axt, kVx_pp, kDRx_pp, mr, policy, tariff, limits, gap, pre) ==
    RowRec(k, Axn, axn, axt, kVx_pp, kDRx_pp,
           RAdd(Axn, RMul(tariff.gamma3, axn)),
           RAdd(kDRx_pp,
                RMul(RMul(RMul(tariff.alpha, RInt(policy.t)), gap), RDiv(mr, pre.ax_5))),
           FlexPhase(policy.x, k, policy.n, limits),
           SurrenderDeduction(k, policy.n, FlexPhase(policy.x, k, policy.n, limits),
                              policy.sum_insured, kDRx_pp),
           policy)

RowPp(k, Axn, axn, axt, kVx_pp, mr, policy, tariff, limits, gap, pre) ==
    RowRes(k, Axn, axn, axt, kVx_pp, RMul(policy.sum_insured, kVx_pp), mr,
           policy, tariff, limits, gap, pre)

\* kVx_pp = Axn - pxt * axt + gamma2 * (axn - ax_ratio_n_over_t * axt)
RowOf(k, Axn, axn, axt, mr, policy, tariff, limits, pxt, gap, pre) ==
    RowPp(k, Axn, axn, axt,
          RAdd(RSub(Axn, RMul(pxt, axt)),
               RMul(tariff.gamma2, RSub(axn, RMul(pre.ratio, axt)))),
          mr, policy, tariff, limits, gap, pre)

\* Axn for k <= n: act_nGrAx(x + k, max0(n - k)) + dx_xn / dx_xk
RowBigOf(ngr, dx_xn, dx_xk) ==
    IF ngr.out # "ok" THEN ngr
    ELSE IF dx_xk = 0 THEN Fail("ZeroDivisionError", ngr.c, ngr.st)
    ELSE Done(RAdd(ngr.val, Rat(dx_xn, dx_xk)), ngr.c, ngr.st)

RowBigDx(d, file, policy, tariff, pre, k) ==
    IF d.out # "ok" THEN Fail(d.out, d.c, d.st)
    ELSE RowBigOf(act_nGrAx(d.c, d.st, file, policy.x + k, _max0(policy.n - k),
                            policy.sex, tariff.mortality_table, tariff.interest_rate),
                  pre.dx_xn, d.vals[1])

RowBig(c, st, file, policy, tariff, pre, k) ==
    IF k <= policy.n
    THEN RowBigDx(GetAll(c, st, file, policy.sex, tariff.mortality_table,
                         tariff.interest_rate, <<Req(KDx, policy.x + k)>>, 1, <<>>),
                  file, policy, tariff, pre, k)
    ELSE Done(RInt(0), c, st)

\* the loop of calc_progression_values from k on
RECURSIVE ProgLoop(_, _, _, _, _, _, _, _, _, _, _, _)
RowMr(A, axn, axt, mr, file, policy, tariff, limits, pxt, gap, top, pre, k, rows) ==
    IF mr.out # "ok" THEN ProgFail(mr.out, mr.c, mr.st)
    ELSE IF pre.ax_5.n = 0 THEN ProgFail("ZeroDivisionError", mr.c, mr.st)
    ELSE ProgLoop(mr.c, mr.st, file, policy, tariff, limits, pxt, gap, top, pre, k + 1,
                  Append(rows, RowOf(k, A.val, axn.val, axt.val, mr.val, policy, tariff,
                                     limits, pxt, gap, pre)))

RowAxt(A, axn, axt, file, policy, tariff, limits, pxt, gap, top, pre, k, rows) ==
    IF axt.out # "ok" THEN ProgFail(axt.out, axt.c, axt.st)
    ELSE RowMr(A, axn, axt,
               Act_axn_k(axt.c, axt.st, file, policy.x + k, _max0(5 - k), policy.sex,
                         tariff.mortality_table, tariff.interest_rate, 1),
               file, policy, tariff, limits, pxt, gap, top, pre, k, rows)

\* a loop that stops at a failing factor and returns the rows built so far
RowAxnPartial(A, axn, file, policy, tariff, limits, pxt, gap, top, pre, k, rows) ==
    IF axn.out # "ok" THEN [out |-> "ok", rows |-> rows, c |-> axn.c, st |-> axn.st]
    ELSE RowAxt(A, axn,
                Act_axn_k(axn.c, axn.st, file, policy.x + k, _max0(policy.t - k),
                          policy.sex, tariff.mortality_table, tariff.interest_rate, 1),
                file, policy, tariff, limits, pxt, gap, top, pre, k, rows)

RowAxn(A, axn, file, policy, tariff, limits, pxt, gap, top, pre, k, rows) ==
    IF axn.out # "ok" THEN ProgFail(axn.out, axn.c, axn.st)
    ELSE RowAxt(A, axn,
                Act_axn_k(axn.c, axn.st, file, policy.x + k, _max0(policy.t - k),
                          policy.sex, tariff.mortality_table, tariff.interest_rate, 1),
                file, policy, tariff, limits, pxt, gap, top, pre, k, rows)

RowA(A, file, policy, tariff, limits, pxt, gap, top, pre, k, rows) ==
    IF A.out # "ok" THEN ProgFail(A.out, A.c, A.st)
    ELSE RowAxn(A,
                Act_axn_k(A.c, A.st, file, policy.x + k, _max0(policy.n - k),
                          policy.sex, tariff.mortality_table, tariff.interest_rate, 1),
                file, policy, tariff, limits, pxt, gap, top, pre, k, rows)

ProgLoop(c, st, file, policy, tariff, limits, pxt, gap, top, pre, k, rows) ==
    IF k > top THEN [out |-> "ok", rows |-> rows, c |-> c, st |-> st]
    ELSE RowA(RowBig(c, st, file, policy, tariff, pre, k),
              file, policy, tariff, limits, pxt, gap, top, pre, k, rows)

\* the values computed before the loop: d is [dx_x5], then ax_5_at_x, then
\* e = [dx_xn]
PreDxn(ratio, ax_5, e, file, policy, tariff, limits, pxt, gap, top) ==
    IF e.out # "ok" THEN ProgFail(e.out, e.c, e.st)
    ELSE ProgLoop(e.c, e.st, file, policy, tariff, limits, pxt, gap, top,
                  [ratio |-> ratio, ax_5 |-> ax_5.val, dx_xn |-> e.vals[1]], 0, <<>>)

PreAx5(ratio, ax_5, file, policy, tariff, limits, pxt, gap, top) ==
    IF ax_5.out # "ok" THEN ProgFail(ax_5.out, ax_5.c, ax_5.st)
    ELSE PreDxn(ratio, ax_5,
                GetAll(ax_5.c, ax_5.st, file, policy.sex, tariff.mortality_table,
                       tariff.interest_rate, <<Req(KDx, policy.x + policy.n)>>, 1, <<>>),
                file, policy, tariff, limits, pxt, gap, top)

PreDx(ratio, d, file, policy, tariff, limits, pxt, gap, top) ==
    IF d.out # "ok" THEN ProgFail(d.out, d.c, d.st)
    ELSE PreAx5(ratio,
                Act_axn_k(d.c, d.st, file, policy.x, 5, policy.sex,
                          tariff.mortality_table, tariff.interest_rate, 1),
                file, policy, tariff, limits, pxt, gap, top)

PreRatio(ax_t0, ax_n0, file, policy, tariff, limits, pxt, gap, top) ==
    IF ax_n0.out # "ok" THEN ProgFail(ax_n0.out, ax_n0.c, ax_n0.st)
    ELSE IF ax_t0.val.n = 0 THEN ProgFail("ZeroDivisionError", ax_n0.c, ax_n0.st)
    ELSE PreDx(RDiv(ax_n0.val, ax_t0.val),
               GetAll(ax_n0.c, ax_n0.st, file, policy.sex, tariff.mortality_table,
                      tariff.interest_rate, <<Req(KDx, policy.x)>>, 1, <<>>),
               file, policy, tariff, limits, pxt, gap, top)

PreAxN(ax_t0, file, policy, tariff, limits, pxt, gap, top) ==
    IF ax_t0.out # "ok" THEN ProgFail(ax_t0.out, ax_t0.c, ax_t0.st)
    ELSE PreRatio(ax_t0,
                  Act_axn_k(ax_t0.c, ax_t0.st, file, policy.x, policy.n, policy.sex,
                            tariff.mortality_table, tariff.interest_rate, 1),
                  file, policy, tariff, limits, pxt, gap, top)

calc_progression_values(c, st, file, policy, tariff, limits, pxt, gross_annual_prem, max_k) ==
    PreAxN(Act_axn_k(c, st, file, policy.x, policy.t, policy.sex,
                     tariff.mortality_table, tariff.interest_rate, 1),
           file, policy, tariff, limits, pxt, gross_annual_prem,
           MaxKOf(max_k, policy.n))

\* calc_all: the premium block, then the progression table from its outputs
AllProg(prem, file, policy, tariff, limits, max_k) ==
    IF prem.out # "ok" THEN ProgFail(prem.out, prem.c, prem.st)
    ELSE calc_progression_values(prem.c, prem.st, file, policy, tariff, limits,
                                 prem.prem.Pxt, prem.prem.GrossAnnualPrem, max_k)

calc_all(c, st, file, policy, tariff, limits, max_k) ==
    AllProg(calc_premium_calculation(c, st, file, policy, tariff),
            file, policy, tariff, limits, max_k)

\* inputs of the annuity-certain functions
MaxK == 4
MaxG == 3
Rm025 == [n |-> -1, d |-> 4, s |-> <<"-","0",".","2","5">>]
Rm100 == [n |-> -1, d |-> 1, s |-> <<"-","1",".","0">>]
Rm200 == [n |-> -2, d |-> 1, s |-> <<"-","2",".","0">>]
PVRates == {R000, R025, R100, Rm025, Rm100, Rm200}

Call_Act_DeductionTerm ==
    /\ \E k \in -1..MaxK, i \in PVRates :
          last' = [op |-> "Act_DeductionTerm", k |-> k, Rate |-> i,
                   out |-> Act_DeductionTerm(k, i).out,
                   val |-> Act_DeductionTerm(k, i).val]
    /\ UNCHANGED <<source, tables_loaded, qx_tables, cache, hist, calls, callers>>

Call_Act_ag_k ==
    /\ \E g \in 0..MaxG, k \in -1..MaxK, i \in PVRates :
          last' = [op |-> "Act_ag_k", g |-> g, k |-> k, Rate |-> i,
                   out |-> Act_ag_k(g, i, k).out, val |-> Act_ag_k(g, i, k).val]
    /\ UNCHANGED <<source, tables_loaded, qx_tables, cache, hist, calls, callers>>

NextCertain ==
    \/ Call_Act_DeductionTerm
    \/ Call_Act_ag_k

SpecCertain == Init /\ [][NextCertain]_vars

-----------------------------------------------------------------------------
(* The premium figures *)

Policy(x, n, t, si, pf) ==
    [x |-> x, sex |-> <<"M">>, n |-> n, t |-> t, sum_insured |-> RInt(si), pay_freq |-> pf]

Tariff(alpha, beta1) ==
    [interest_rate |-> R025, mortality_table |-> TDAV1994, alpha |-> alpha,
     beta1 |-> beta1, gamma1 |-> Rat(1, 8), gamma2 |-> Rat(1, 8), gamma3 |-> Rat(1, 16),
     k |-> RInt(3)]

\* the tariff of calc_premium_calculation for a payment frequency
WithSurcharge(tariff, pf) ==
    [f \in (DOMAIN tariff) \cup {"modal_surcharge"} |->
        IF f = "modal_surcharge" THEN ModalSurcharge(pf) ELSE tariff[f]]

\* payment terms 0..n, one and two payments a year, and a payment frequency 0
PremPolicies ==
    { Policy(0, 2, 0, 1000, 1), Policy(0, 2, 1, 1000, 1), Policy(0, 2, 2, 1000, 1),
      Policy(0, 2, 2, 2000, 2), Policy(0, 2, 2, 1000, 0), Policy(1, 2, 1, 2000, 2),
      Policy(1, 1, 1, 1000, 1), Policy(2, 5, 1, 1000, 1) }

\* with the second tariff (1 - beta1) * axn(1) = alpha * 1
PremTariffs == { Tariff(Rat(1, 4), Rat(1, 4)), Tariff(Rat(1, 2), Rat(1, 2)) }

PremSources == {FileA, NoFile}

InitPrem == Init /\ source \in PremSources

\* a premium call returned or failed: r is [out, val or prem, c, st]
PremDone(op, r, policy, tariff, val) ==
    /\ cache' = r.c
    /\ tables_loaded' = r.st.loaded
    /\ qx_tables' = r.st.tables
    /\ last' = [op |-> op, policy |-> policy, tariff |-> tariff, out |-> r.out,
                 val |-> val]
    /\ UNCHANGED <<source, hist, calls, callers>>

PremCall(r, policy, tariff) ==
    PremDone("calc_premium_calculation", r, policy, tariff, r.prem)

Call_calc_premium_calculation ==
    \E policy \in PremPolicies, tariff \in PremTariffs :
        PremCall(calc_premium_calculation(cache, Store, source, policy,
                                          WithSurcharge(tariff, policy.pay_freq)),
                 policy, tariff)

OutCall(op, r, policy, tariff) == PremDone(op, r, policy, tariff, r.val)

Call_NormGrossAnnualPrem ==
    \E q \in PremPolicies, p \in PremTariffs :
        OutCall("NormGrossAnnualPrem",
                NormGrossAnnualPrem(cache, Store, source, p, q.sum_insured, q.x, q.sex,
                                    q.n, q.t, q.pay_freq),
                q, p)

Call_GrossAnnualPrem ==
    \E q \in PremPolicies, p \in PremTariffs :
        OutCall("GrossAnnualPrem",
                GrossAnnualPrem(cache, Store, source, p, q.sum_insured, q.x, q.sex,
                                q.n, q.t, q.pay_freq),
                q, p)

Call_GrossModalPrem ==
    \E q \in PremPolicies, p \in PremTariffs :
        OutCall("GrossModalPrem",
                GrossModalPrem(cache, Store, source, p, q.sum_insured, q.x, q.sex,
                               q.n, q.t, q.pay_freq),
                q, p)

Call_Pxt ==
    \E q \in PremPolicies, p \in PremTariffs :
        OutCall("Pxt",
                Pxt(cache, Store, source, p, q.sum_insured, q.x, q.sex, q.n, q.t,
                    q.pay_freq),
                q, p)

NextPrem ==
    \/ Call_calc_premium_calculation
    \/ Call_NormGrossAnnualPrem
    \/ Call_GrossAnnualPrem
    \/ Call_GrossModalPrem
    \/ Call_Pxt

SpecPrem == InitPrem /\ [][NextPrem]_vars

\* inputs of the progression table: terms 2 and 3 at entry age 0, and an
\* entry age whose 5-year annuity leaves the table
ProgPolicies ==
    { Policy(0, 2, 1, 1000, 1), Policy(0, 3, 2, 1000, 1), Policy(1, 2, 1, 1000, 1) }

ProgTariff == Tariff(Rat(1, 4), Rat(1, 4))

\* with this gamma3 the paid-up reserve Axn + gamma3 * axn of Policy(0, 2, 2, ..)
\* is 0 at k = 0
ZeroPuTariff == [ProgTariff EXCEPT !.gamma3 = Rat(-33, 85)]

Limits(min_age_flex, min_term_flex) ==
    [min_age_flex |-> min_age_flex, min_term_flex |-> min_term_flex]

\* with the first the term condition holds from k = 0 and the age condition
\* from k = 1; with the second the age condition holds first
ProgLimits == { Limits(1, 3), Limits(0, 1) }

\* the cases of a progression call: the policies under both limits, with
\* every max_k
ProgCases ==
    { [policy |-> q, tariff |-> ProgTariff, limits |-> l] :
          q \in ProgPolicies, l \in ProgLimits }

\* and, for the policy term only: two larger sums insured (1% of the sum at
\* risk between 50 and 150, and above 150), and the tariff with a paid-up
\* reserve of 0
TermCases ==
    { [policy |-> Policy(0, 2, 2, si, 1), tariff |-> ProgTariff,
       limits |-> Limits(1, 3)] : si \in {10000, 20000} }
    \cup { [policy |-> Policy(0, 2, 2, 1000, 1), tariff |-> ZeroPuTariff,
            limits |-> Limits(1, 3)] }

NoMaxK == [none |-> TRUE, v |-> 0]

\* max_k omitted, 0, past the policy term, and past the last age of the table
ProgMaxKs == {NoMaxK} \cup { [none |-> FALSE, v |-> v] : v \in {0, 4, MAX_AGE + 1} }

ProgPxt == Rat(1, 4)

ProgGrossAnnualPrem == RInt(500)

\* a progression call returned or failed: r is [out, rows, c, st]
ProgDone(op, r, case, max_k) ==
    /\ cache' = r.c
    /\ tables_loaded' = r.st.loaded
    /\ qx_tables' = r.st.tables
    /\ last' = [op |-> op, policy |-> case.policy, tariff |-> case.tariff,
                 limits |-> case.limits, max_k |-> max_k, out |-> r.out,
                 rows |-> r.rows]
    /\ UNCHANGED <<source, hist, calls, callers>>

ProgCall(case, max_k) ==
    ProgDone("calc_progression_values",
             calc_progression_values(cache, Store, source, case.policy, case.tariff,
                                     case.limits, ProgPxt, ProgGrossAnnualPrem, max_k),
             case, max_k)

ProgInputs == (ProgCases \X ProgMaxKs) \cup (TermCases \X {NoMaxK})

Call_calc_progression_values ==
    \E in \in ProgInputs :
        ProgCall(in[1], in[2])

Call_calc_all ==
    \E policy \in ProgPolicies, max_k \in {NoMaxK, [none |-> FALSE, v |-> MAX_AGE + 1]} :
        ProgDone("calc_all",
                 calc_all(cache, Store, source, policy,
                          WithSurcharge(ProgTariff, policy.pay_freq), Limits(0, 1),
                          max_k),
                 [policy |-> policy, tariff |-> ProgTariff, limits |-> Limits(0, 1)],
                 max_k)

NextProg ==
    \/ Call_calc_progression_values
    \/ Call_calc_all

SpecProg == InitPrem /\ [][NextProg]_vars

-----------------------------------------------------------------------------
(* compare.py: the figures computed from the inputs of the sheet against the *)
(* output cells of the sheet.  A cell is [kind, v] with kind "num", "text"   *)
(* or "empty"; the sheet is [policy, tariff, limits, inputs, prem, rows],    *)
(* prem and rows holding the output cells by field name.                     *)

ABS_TOL == Rat(1, 10 * 10 * 10 * 10 * 10 * 10 * 10 * 10)
REL_TOL == Rat(1, 10 * 10 * 10 * 10 * 10 * 10 * 10 * 10)

PremFields == {"NormGrossAnnualPrem", "GrossAnnualPrem", "GrossModalPrem", "Pxt"}

IntFields == {"k", "Flex_phase"}

ProgCols ==
    {"k", "Axn", "axn", "axt", "kVx_pp", "kDRx_pp", "kVx_pu", "kVx_MRV", "Flex_phase",
     "Surrender_deduction", "Surrender_value", "SumInsured_pu"}

Lcm(a, b) == (a \div GCD(a, b)) * b

\* a - b over the least common denominator
FSub(a, b) == Rat(a.n * (Lcm(a.d, b.d) \div a.d) - b.n * (Lcm(a.d, b.d) \div b.d), Lcm(a.d, b.d))

RAbs(a) == [n |-> Abs(a.n), d |-> a.d]

RLeq(a, b) == ~RLt(b, a)

\* int(v): truncation towards zero
IntOf(v) == IF v.n >= 0 THEN v.n \div v.d ELSE -((-v.n) \div v.d)

\* p / q <= r / s for naturals p, r and positive q, s, by continued fractions
\* (no product is formed)
RECURSIVE FracLeq(_, _, _, _)
FracLeq(p, q, r, s) ==
    IF p \div q # r \div s THEN p \div q < r \div s
    ELSE IF p % q = 0 THEN TRUE
    ELSE IF r % s = 0 THEN FALSE
    ELSE FracLeq(s, r % s, q, p % q)

\* x <= a * b for x, a, b >= 0, as x / b <= a: the product a * b itself may
\* have a denominator beyond the integers at hand
RLeqQuot(q, a) == FracLeq(q.n, q.d, a.n, a.d)

RLeqProd(x, a, b) ==
    IF b.n = 0 THEN x.n = 0
    ELSE RLeqQuot(Rat((x.n \div GCD(x.n, b.n)) * (b.d \div GCD(x.d, b.d)),
                      (x.d \div GCD(x.d, b.d)) * (b.n \div GCD(x.n, b.n))), a)

\* diff <= rel_tol * scale
ApproxScaled(diff, scale) == RLeqProd(diff, REL_TOL, scale)

ApproxDiff(diff, a, b) ==
    IF RLeq(diff, ABS_TOL) THEN TRUE
    ELSE ApproxScaled(diff, RMax(RMax(RAbs(a), RAbs(b)), RInt(1)))

approx_equal(a, b) == ApproxDiff(RAbs(FSub(a, b)), a, b)

\* TRUE when the figure matches the cell
compare_value(py, xl) ==
    IF xl.kind # "num" THEN FALSE ELSE approx_equal(py, xl.v)

\* the comparison of k and Flex_phase: int(r_py[name]) != int(xl_val)
IntMatches(py_i, xl) ==
    IF xl.kind # "num" THEN FALSE ELSE py_i = IntOf(xl.v)

ColMatches(name, r_py, xl) ==
    IF name \in IntFields THEN IntMatches(r_py[name], xl)
    ELSE compare_value(r_py[name], xl)

\* one row of the table: an empty k cell skips the row with one mismatch
RowMatches(r_py, xl_row) ==
    IF xl_row["k"].kind = "empty" THEN FALSE
    ELSE /\ IntMatches(r_py["k"], xl_row["k"])
         /\ \A name \in ProgCols : ColMatches(name, r_py, xl_row[name])

NoMismatch(prem_py, prog_py, sheet) ==
    /\ \A name \in PremFields : compare_value(prem_py[name], sheet.prem[name])
    /\ \A idx \in 1..Len(prog_py) : RowMatches(prog_py[idx], sheet.rows[idx])

\* the result of main: [out, ret, prem, rows, c, st]
MainFail(e, c, st) ==
    [out |-> e, ret |-> 1, prem |-> NoPrem, rows |-> <<>>, c |-> c, st |-> st]

MainDone(prem, prog, sheet) ==
    IF prog.out # "ok" THEN MainFail(prog.out, prog.c, prog.st)
    ELSE [out |-> "ok",
          ret |-> IF NoMismatch(prem.prem, prog.rows, sheet) THEN 0 ELSE 1,
          prem |-> prem.prem, rows |-> prog.rows, c |-> prog.c, st |-> prog.st]

MainProg(prem, file, sheet) ==
    IF prem.out # "ok" THEN MainFail(prem.out, prem.c, prem.st)
    ELSE MainDone(prem,
                  calc_progression_values(prem.c, prem.st, file, sheet.policy,
                                          sheet.tariff, sheet.limits, prem.prem.Pxt,
                                          prem.prem.GrossAnnualPrem,
                                          [none |-> FALSE, v |-> sheet.policy.n]),
                  sheet)

main(c, st, file, sheet) ==
    IF ~sheet.inputs THEN MainFail("ValueError", c, st)
    ELSE MainProg(calc_premium_calculation(c, st, file, sheet.policy, sheet.tariff),
                  file, sheet)

\* the sheets compared: the outputs of the spreadsheet are the figures of the
\* code (computed here on a fresh store), but for one cell
Num(v) == [kind |-> "num", v |-> v]
Text == [kind |-> "text", v |-> RInt(0)]
Empty == [kind |-> "empty", v |-> RInt(0)]

Tiny == Rat(1, 10 * 10 * 10 * 10 * 10 * 10 * 10 * 10 * 10)
Small == Rat(1, 200000)

Changed(v, how) ==
    CASE how = "tiny" -> Num(FSub(v, Tiny))
      [] how = "small" -> Num(FSub(v, Small))
      [] how = "off" -> Num(RAdd(v, RInt(1)))
      [] how = "half" -> Num(RAdd(v, Rat(1, 2)))
      [] how = "text" -> Text
      [] how = "empty" -> Empty
      [] OTHER -> Num(v)

FieldOf(rec, name) == IF name \in IntFields THEN RInt(rec[name]) ELSE rec[name]

CellOf(rec, row, name, chg) ==
    IF chg.row = row /\ chg.name = name THEN Changed(FieldOf(rec, name), chg.how)
    ELSE Num(FieldOf(rec, name))

SheetOf(case, prem, prog, chg) ==
    [policy |-> case.policy, tariff |-> WithSurcharge(case.tariff, case.policy.pay_freq),
     limits |-> case.limits, inputs |-> chg.how # "noinput",
     prem |-> [name \in PremFields |-> CellOf(prem.prem, 0, name, chg)],
     rows |-> [idx \in 1..Len(prog.rows) |->
                  [name \in ProgCols |-> CellOf(prog.rows[idx], idx, name, chg)]]]

Change(row, name, how) == [row |-> row, name |-> name, how |-> how]

\* the changes of one cell: within the absolute tolerance, within the
\* relative tolerance only (the figure 1000), outside both, off by one,
\* with a fraction on an integer field, text, empty, and an empty input cell
Changes ==
    { Change(0, "none", "none"), Change(0, "none", "noinput"),
      Change(0, "GrossAnnualPrem", "off"),
      Change(0, "GrossAnnualPrem", "empty"), Change(0, "Pxt", "text"),
      Change(1, "Axn", "tiny"), Change(1, "Axn", "small"), Change(1, "Axn", "off"),
      Change(1, "Axn", "empty"), Change(1, "Axn", "text"),
      Change(3, "SumInsured_pu", "small"), Change(3, "SumInsured_pu", "off"),
      Change(2, "k", "off"), Change(2, "k", "half"), Change(2, "k", "text"),
      Change(1, "k", "empty"),
      Change(3, "Flex_phase", "off"), Change(1, "Flex_phase", "half"),
      Change(3, "Flex_phase", "text"), Change(3, "Flex_phase", "empty") }

CompareCases ==
    { [policy |-> q, tariff |-> ProgTariff, limits |-> Limits(0, 1)] : q \in ProgPolicies }

FreshStore == [loaded |-> FALSE, tables |-> EmptyMap]

RefProg(case, prem) ==
    calc_progression_values(prem.c, prem.st, FileA, case.policy, case.tariff,
                            case.limits, prem.prem.Pxt, prem.prem.GrossAnnualPrem,
                            [none |-> FALSE, v |-> case.policy.n])

RefPrem(case) ==
    calc_premium_calculation(NoCache, FreshStore, FileA, case.policy,
                             WithSurcharge(case.tariff, case.policy.pay_freq))

MainReturned(r, sheet, chg) ==
    /\ cache' = r.c
    /\ tables_loaded' = r.st.loaded
    /\ qx_tables' = r.st.tables
    /\ last' = [op |-> "main", sheet |-> sheet, chg |-> chg, out |-> r.out,
                 ret |-> r.ret, prem |-> r.prem, rows |-> r.rows]
    /\ UNCHANGED <<source, hist, calls, callers>>

MainWith(sheet, chg) == MainReturned(main(cache, Store, source, sheet), sheet, chg)

MainOn(case, prem, prog) ==
    \E chg \in Changes : MainWith(SheetOf(case, prem, prog, chg), chg)

MainCase(case, prem) == MainOn(case, prem, RefProg(case, prem))

Call_main == \E case \in CompareCases : MainCase(case, RefPrem(case))

NextCompare == Call_main

SpecCompare == InitPrem /\ [][NextCompare]_vars

-----------------------------------------------------------------------------
(* Callers in several threads.  A thread runs its call one step at a time,  *)
(* a step being what the code does between two accesses to the module's     *)
(* globals _tables_loaded, _qx_tables and cache; the steps of different     *)
(* threads interleave freely.  Vec_* builders read the tables in one step.  *)

Step(t, c) == callers' = [callers EXCEPT ![t] = c]

At(t, pc) == callers[t].pc = pc

Goto(t, pc) == Step(t, [callers[t] EXCEPT !.pc = pc])

Finish(t, out, val) == Step(t, [callers[t] EXCEPT !.pc = "done", !.out = out, !.val = val])

RaceAges == {1, 2}
RaceSexes == {SexM, SexF}

\* Act_qx is entered
QxEnter(t) ==
    /\ At(t, "idle")
    /\ \E a \in RaceAges, sx \in RaceSexes :
           Step(t, [Idle EXCEPT !.pc = "test", !.call = "Act_qx", !.Age = a, !.Sex = sx,
                                !.TableId = TDAV1994])
    /\ UNCHANGED <<source, tables_loaded, qx_tables, cache, last, hist, calls>>

\* where a caller goes on once the tables are there
AfterLoad(t) == IF callers[t].call = "Act_qx" THEN "lookup" ELSE "build"

\* if _tables_loaded: return
LoadTest(t) ==
    /\ At(t, "test")
    /\ Goto(t, IF tables_loaded THEN AfterLoad(t) ELSE "open")
    /\ UNCHANGED <<source, tables_loaded, qx_tables, cache, last, hist, calls>>

\* the file test, the parse, the scan for the tags and for the size
LoadOpen(t) ==
    /\ At(t, "open")
    /\ IF ~source.exists THEN Finish(t, "FileNotFoundError", 0)
       ELSE IF source.records = <<>> THEN Finish(t, "NoRecords", 0)
       ELSE Goto(t, "init")
    /\ UNCHANGED <<source, tables_loaded, qx_tables, cache, last, hist, calls>>

\* _qx_tables = {tag.upper(): [0.0] * size for tag in table_tags}
LoadInit(t) ==
    /\ At(t, "init")
    /\ qx_tables' = [k \in {Upper(tag) : tag \in DOMAIN source.records[1].cols} |->
                        [a \in 0..Max(MaxXy(source.records, 1, 0), MAX_AGE) |-> 0]]
    /\ Step(t, [callers[t] EXCEPT !.pc = "fill", !.i = 1])
    /\ UNCHANGED <<source, tables_loaded, cache, last, hist, calls>>

\* one record of the fill loop, written into the _qx_tables of the moment
LoadFill(t) ==
    /\ At(t, "fill")
    /\ qx_tables' = FillRecord(qx_tables, source.records[callers[t].i],
                               DOMAIN source.records[1].cols)
    /\ Step(t, [callers[t] EXCEPT !.i = @ + 1,
                                   !.pc = IF callers[t].i = Len(source.records)
                                          THEN "flag" ELSE "fill"])
    /\ UNCHANGED <<source, tables_loaded, cache, last, hist, calls>>

\* _tables_loaded = True
LoadFlag(t) ==
    /\ At(t, "flag")
    /\ tables_loaded' = TRUE
    /\ Goto(t, AfterLoad(t))
    /\ UNCHANGED <<source, qx_tables, cache, last, hist, calls>>

QxFound(t, r) == Finish(t, r.out, r.val)

\* Act_qx past the loader: the lookup in _qx_tables
QxRead(t) ==
    /\ At(t, "lookup")
    /\ QxFound(t, QxLookup([out |-> "ok", st |-> Store, parsed |-> FALSE],
                           callers[t].Age, NormTable(callers[t].TableId),
                           NormTable(callers[t].TableId) \o <<"_">>
                               \o NormSex(callers[t].Sex)))
    /\ UNCHANGED <<source, tables_loaded, qx_tables, cache, last, hist, calls>>

\* the call has returned or raised; the thread is free again
Leave(t) ==
    /\ At(t, "done")
    /\ Step(t, Idle)
    /\ UNCHANGED <<source, tables_loaded, qx_tables, cache, last, hist, calls>>

LoadStep(t) ==
    \/ LoadTest(t)
    \/ LoadOpen(t)
    \/ LoadInit(t)
    \/ LoadFill(t)
    \/ LoadFlag(t)

NextLoadRace ==
    \E t \in Threads :
        \/ QxEnter(t)
        \/ LoadStep(t)
        \/ QxRead(t)
        \/ Leave(t)

SpecLoadRace == InitPrem /\ [][NextLoadRace]_vars

\* Act_Dx is entered: _ensure_cache's test comes first
AccEnter(t) ==
    /\ At(t, "idle")
    /\ \E a \in RaceAges :
           Step(t, [Idle EXCEPT !.pc = "ensure", !.call = "Act", !.Kind = <<"D","x">>,
                                !.Age = a, !.Sex = SexM, !.TableId = TDAV1994,
                                !.Rate = R025,
                                !.key = BuildCacheKey(<<"D","x">>, a, SexM, TDAV1994,
                                                      R025, 0, 0, 1)])
    /\ UNCHANGED <<source, tables_loaded, qx_tables, cache, last, hist, calls>>

\* if cache is None
AccEnsure(t) ==
    /\ At(t, "ensure")
    /\ Goto(t, IF cache.none THEN "create" ELSE "check")
    /\ UNCHANGED <<source, tables_loaded, qx_tables, cache, last, hist, calls>>

\* cache = {}
AccCreate(t) ==
    /\ At(t, "create")
    /\ cache' = NewCache
    /\ Goto(t, "check")
    /\ UNCHANGED <<source, tables_loaded, qx_tables, last, hist, calls>>

\* if key in cache: return float(cache[key]); otherwise the builder starts,
\* and its first Act_qx enters the loader
AccCheck(t) ==
    /\ At(t, "check")
    /\ IF callers[t].key \in DOMAIN cache.d
       THEN Finish(t, "ok", cache.d[callers[t].key])
       ELSE Goto(t, "test")
    /\ UNCHANGED <<source, tables_loaded, qx_tables, cache, last, hist, calls>>

AccBuilt(t, r) ==
    IF r.out # "ok" THEN Finish(t, r.out, 0)
    ELSE Step(t, [callers[t] EXCEPT !.pc = "store", !.val = r.val])

\* vec = Vec_Dx(...); value = float(vec[Age]), on the tables of the moment
AccBuild(t) ==
    /\ At(t, "build")
    /\ AccBuilt(t, Pick(Builder(callers[t].Kind, Store, source, callers[t].Age,
                                callers[t].Sex, callers[t].TableId, callers[t].Rate),
                        callers[t].Age))
    /\ UNCHANGED <<source, tables_loaded, qx_tables, cache, last, hist, calls>>

\* cache[key] = value; return value
AccStore(t) ==
    /\ At(t, "store")
    /\ cache' = [cache EXCEPT !.d = CacheStore(cache.d, callers[t].key, callers[t].val)]
    /\ Goto(t, "done")
    /\ UNCHANGED <<source, tables_loaded, qx_tables, last, hist, calls>>

NextCacheRace ==
    \E t \in Threads :
        \/ AccEnter(t)
        \/ AccEnsure(t)
        \/ AccCreate(t)
        \/ AccCheck(t)
        \/ LoadStep(t)
        \/ AccBuild(t)
        \/ AccStore(t)
        \/ Leave(t)

SpecCacheRace == InitPrem /\ [][NextCacheRace]_vars

-----------------------------------------------------------------------------
(* Properties *)

Supported == {TDAV1994, TDAV2008}

\* C1, as stated: between two resets the builder runs at most once for any
\* parameter tuple, and every call with that tuple returns the same value.
C1_BuilderAtMostOncePerTuple ==
    \A k \in DOMAIN hist : hist[k].builds <= 1 /\ hist[k].same

\* C1, amended: between two resets, once a call with a tuple has returned a
\* value, every later call with that tuple returns that same value, none of
\* them fails and none of them runs the builder again.  (A call that fails
\* stores nothing, so the next call with its tuple runs the builder again.)
C1_IdempotentOnceReturned ==
    \A k \in DOMAIN hist :
        /\ hist[k].late = 0
        /\ hist[k].lost = 0
        /\ hist[k].same
        /\ hist[k].rets >= 1 => (k \in DOMAIN cache.d /\ cache.d[k] = hist[k].v)

\* the same tuple returned twice, the builder having run once
C1_Witness ==
    \E k \in DOMAIN hist : hist[k].rets >= 2 /\ hist[k].builds = 1 /\ hist[k].v > 0

\* C2: right after InitializeCache the cache holds no key, whatever calls
\* preceded it, and the first accessor call after it finds no entry and runs
\* the builder.
C2_ResetEmptiesCache ==
    /\ last.op = "InitializeCache" => cache = NewCache
    /\ (last.op = "Act" /\ calls = 1) => (~last.hit /\ last.built = 1)

\* a reset that dropped entries
C2_Witness ==
    last.op = "InitializeCache" /\ last.val >= 2 /\ DOMAIN cache.d = {}

\* C3: in a step that is no reset, a key of the cache stays and keeps its value.
C3_AppendOnly ==
    [][calls' >= calls =>
        \A k \in DOMAIN cache.d : k \in DOMAIN cache'.d /\ cache'.d[k] = cache.d[k]]_vars

\* a second key was stored beside the first
C3_Witness ==
    /\ last.op = "Act" /\ ~last.hit /\ last.out = "ok"
    /\ Cardinality(DOMAIN cache.d) >= 2

\* C4: once the tables are loaded, no call parses the source again, and the
\* flag and every stored rate vector stay as they are.
C4_LoadedOnce ==
    [][tables_loaded =>
        /\ tables_loaded'
        /\ qx_tables' = qx_tables
        /\ last'.wasLoaded => last'.parses = 0]_vars

\* a rate was read from loaded tables while the source on disk holds other rates
C4_Witness ==
    /\ last.op = "Act_qx" /\ last.wasLoaded /\ last.out = "ok"
    /\ ParseSource(source).out = "ok"
    /\ ParseSource(source).tables # qx_tables

\* C5, as stated: Act_qx with a table identifier other than DAV1994_T and
\* DAV2008_T fails with the unsupported-table error.
C5_UnlistedIdIsUnsupported ==
    (last.op = "Act_qx" /\ last.TableId \notin Supported) => last.out = "NotImplemented"

\* C5, amended: Act_qx with a table identifier that is, stripped and in upper
\* case, neither DAV1994_T nor DAV2008_T never returns a rate: it fails with
\* the unsupported-table error for every age and sex once the tables are
\* loaded, and with the loader's error when the source cannot be loaded.
C5_UnsupportedTable ==
    (last.op = "Act_qx" /\ NormTable(last.TableId) \notin Supported) =>
        /\ last.out # "ok"
        /\ tables_loaded => last.out = "NotImplemented"
        /\ ~tables_loaded => last.out \in {"FileNotFoundError", "NoRecords"}

\* an unsupported table asked at an age no table has
C5_Witness ==
    /\ last.op = "Act_qx" /\ last.TableId = TKLV /\ last.Age = -1
    /\ last.out = "NotImplemented"

\* the column Act_qx reads for the last call
LastColumn == NormTable(last.TableId) \o <<"_">> \o
              (IF Upper(Strip(last.Sex)) = <<"M">> THEN <<"M">> ELSE <<"F">>)

\* C6: with the tables loaded and a supported table, Act_qx fails with the
\* not-found error when the (table, sex) column is absent; otherwise it fails
\* with the out-of-range error exactly when age < 0 or age >= size, and
\* returns qx[age] in every other case.
C6_AgeRange ==
    (last.op = "Act_qx" /\ tables_loaded /\ NormTable(last.TableId) \in Supported) =>
        IF LastColumn \notin DOMAIN qx_tables THEN last.out = "KeyError"
        ELSE /\ last.out = "IndexError" <=>
                    (last.Age < 0 \/ last.Age >= Cardinality(DOMAIN qx_tables[LastColumn]))
             /\ last.out # "IndexError" =>
                    (last.out = "ok" /\ last.val = qx_tables[LastColumn][last.Age])

\* the first age past the end of a loaded column
C6_Witness ==
    /\ last.op = "Act_qx" /\ last.out = "IndexError"
    /\ LastColumn \in DOMAIN qx_tables
    /\ last.Age = Cardinality(DOMAIN qx_tables[LastColumn])

\* What Act_qx answers now for the last call's age and table and the given
\* sex.  With the tables loaded nothing has changed them since that call.
Again(Sex) == Act_qx(Store, source, last.Age, Sex, last.TableId)

SameAnswer(r) == last.out = r.out /\ last.val = r.val

\* C7, as stated: a sex string that is not M or m gets the answer of sex F,
\* and M or m get the answer of the M column.
C7_NotExactlyMIsF ==
    (last.op = "Act_qx" /\ tables_loaded) =>
        SameAnswer(Again(IF Upper(last.Sex) = <<"M">> THEN <<"M">> ELSE <<"F">>))

\* C7, amended: a sex string that, with the white space around it stripped,
\* is not M or m gets the answer of sex F; one that strips to M or m gets the
\* answer of the M column.
C7_SexNormalised ==
    (last.op = "Act_qx" /\ tables_loaded) =>
        SameAnswer(Again(IF Upper(Strip(last.Sex)) = <<"M">> THEN <<"M">> ELSE <<"F">>))

\* " m " read the M column, whose rate differs from the F column's
C7_Witness ==
    /\ last.op = "Act_qx" /\ last.Sex = <<" ","m"," ">> /\ last.out = "ok"
    /\ Again(<<"F">>).out = "ok"
    /\ last.val # Again(<<"F">>).val
    /\ last.val = Again(<<"M">>).val

EndAgeBuilders == {"Vec_lx", "Vec_tx", "Vec_Dx", "Vec_Cx"}

\* C8: a builder with EndAge < -1 fails with the invalid-argument error
\* without calling Act_qx or the loader; a builder that returns gives a
\* vector on 0..MAX_AGE for EndAge = -1 and on 0..EndAge for EndAge >= 0.
C8_EndAge ==
    last.op \in EndAgeBuilders =>
        /\ last.Age < -1 =>
              /\ last.out = "EndAgeInvalid"
              /\ last.qx = 0 /\ last.parses = 0
              /\ tables_loaded = last.wasLoaded
        /\ last.Age >= -1 => last.out # "EndAgeInvalid"
        /\ (last.Age = -1 /\ last.out = "ok") => DOMAIN last.vec = 0..MAX_AGE
        /\ (last.Age >= 0 /\ last.out = "ok") => DOMAIN last.vec = 0..last.Age

\* Vec_Cx refused EndAge = -2 on a source it could have loaded
C8_Witness ==
    /\ last.op = "Vec_Cx" /\ last.Age = -2 /\ last.out = "EndAgeInvalid"
    /\ ~tables_loaded /\ ParseSource(source).out = "ok"

RatesInUnit(col) == \A a \in DOMAIN qx_tables[col] :
                        qx_tables[col][a] >= 0 /\ qx_tables[col][a] <= QDEN

\* C9: a vector returned by Vec_lx starts at 1000000, and when the rates of
\* its (table, sex) column lie in [0, 1] it never increases.
C9_LxNonIncreasing ==
    (last.op = "Vec_lx" /\ last.out = "ok") =>
        /\ last.vec[0] = 1000000
        /\ (LastColumn \in DOMAIN qx_tables /\ RatesInUnit(LastColumn)) =>
              \A a \in (DOMAIN last.vec) \ {0} : last.vec[a] <= last.vec[a - 1]

\* a full vector that falls at every age, one of its elements rounded
C9_Witness ==
    /\ last.op = "Vec_lx" /\ last.out = "ok" /\ last.Age = -1
    /\ LastColumn \in DOMAIN qx_tables /\ RatesInUnit(LastColumn)
    /\ \A a \in 1..MAX_AGE : last.vec[a] < last.vec[a - 1]
    /\ \E a \in 1..MAX_AGE :
          (last.vec[a - 1] * (QDEN - qx_tables[LastColumn][a - 1])) % QDEN # 0

\* lx at age a for the last call's table and sex, as Act_lx answers it now
LxAt(a) == Act_lx(Store, source, a, last.Sex, last.TableId)

TxFromLx(a) == _excel_round(LxAt(a).val - LxAt(a + 1).val, 1, ROUND_TX)

\* C10: Act_tx(age) is round(Act_lx(age) - Act_lx(age + 1)) for every age in
\* 0..MAX_AGE-1 of a supported (table, sex), and so is every element of a
\* vector returned by Vec_tx.
C10_TxIsLxDifference ==
    /\ (last.op = "Act_tx" /\ last.out = "ok" /\ last.Age >= 0 /\ last.Age < MAX_AGE
            /\ LxAt(last.Age + 1).out = "ok")
          => last.val = TxFromLx(last.Age)
    /\ (last.op = "Vec_tx" /\ last.out = "ok")
          => \A i \in DOMAIN last.vec :
                LxAt(i + 1).out = "ok" => last.vec[i] = TxFromLx(i)

\* the full vector a builder returns now for the last call's sex, table and rate
DxNow == Vec_Dx(Store, source, -1, last.Sex, last.TableId, last.Rate).vec
CxNow == Vec_Cx(Store, source, -1, last.Sex, last.TableId, last.Rate).vec
MxNow == Vec_Mx(Store, source, last.Sex, last.TableId, last.Rate).vec

\* vec is the backward sum of temp, rounded at the given digits
IsBackSum(vec, temp, digits) ==
    /\ DOMAIN vec = 0..MAX_AGE
    /\ vec[MAX_AGE] = temp[MAX_AGE]
    /\ \A i \in 0..(MAX_AGE - 1) : vec[i] = _excel_round(vec[i + 1] + temp[i], 1, digits)

\* C11: a vector returned by Vec_Nx is the backward sum of Dx rounded at the
\* digits of Nx, one returned by Vec_Mx the backward sum of Cx rounded at the
\* digits of Mx, one returned by Vec_Rx the backward sum of Mx rounded at the
\* digits of Rx, each starting from the element at MAX_AGE.
C11_BackwardRecurrence ==
    /\ (last.op = "Vec_Nx" /\ last.out = "ok") => IsBackSum(last.vec, DxNow, ROUND_NX)
    /\ (last.op = "Vec_Mx" /\ last.out = "ok") => IsBackSum(last.vec, CxNow, ROUND_MX)
    /\ (last.op = "Vec_Rx" /\ last.out = "ok") => IsBackSum(last.vec, MxNow, ROUND_RX)

\* the last call was Vec_Dx at a positive rate, on a column of probabilities
DxCase ==
    /\ last.op = "Vec_Dx" /\ last.out = "ok" /\ last.Rate.n > 0
    /\ LastColumn \in DOMAIN qx_tables /\ RatesInUnit(LastColumn)

\* C12, as stated, on the columns whose rates are probabilities: at a
\* positive interest rate a vector returned by Vec_Dx falls strictly from
\* each age to the next.
C12_DxStrictlyDecreasing ==
    DxCase => \A i \in (DOMAIN last.vec) \ {0} : last.vec[i] < last.vec[i - 1]

\* C12, amended: at a positive interest rate and on a column whose rates lie
\* in [0, 1], a vector returned by Vec_Dx has Dx[i] = round(lx[i] * v^i) and
\* never rises from an age to the next (it stays where lx has reached 0).
C12_DxNonIncreasing ==
    DxCase =>
        /\ \A i \in DOMAIN last.vec :
              last.vec[i] = _excel_round_prod(LxAt(i).val, Pow(last.Rate.d, i),
                                              Pow(last.Rate.n + last.Rate.d, i), ROUND_DX)
        /\ \A i \in (DOMAIN last.vec) \ {0} : last.vec[i] <= last.vec[i - 1]

\* a full vector that falls and then stays at 0, lx having reached 0
C12_Witness ==
    /\ DxCase /\ last.Age = -1
    /\ last.vec[1] < last.vec[0]
    /\ \E i \in 1..MAX_AGE : last.vec[i] = 0 /\ last.vec[i - 1] = 0

\* an accessor of the given kind returned a value for an age in 0..MAX_AGE
ActCase(Kind) ==
    /\ last.op = "Act" /\ last.Kind = Kind /\ last.out = "ok"
    /\ last.Age >= 0 /\ last.Age <= MAX_AGE

\* C13: for an age in 0..MAX_AGE, Act_Dx(age) is the element at that age of
\* the full vector Vec_Dx(-1), and Act_Cx(age) is the element at that age of
\* the full vector Vec_Cx(-1).
C13_ScalarIsVectorElement ==
    /\ ActCase(<<"D","x">>) => last.val = DxNow[last.Age]
    /\ ActCase(<<"C","x">>) => last.val = CxNow[last.Age]

\* C14: an accessor called with an age below 0 or above MAX_AGE fails, and
\* the cache holds no entry under the key of that call.
C14_OutOfRangeFails ==
    (last.op = "Act" /\ (last.Age < 0 \/ last.Age > MAX_AGE)) =>
        /\ last.out # "ok"
        /\ last.key \notin DOMAIN cache.d

\* the sum over l = 0..top of (l/k) / (1 + (l/k) * i), each term written as
\* l * d / (k * d + l * n) for i = n/d
RECURSIVE DeductionSum(_, _, _)
DeductionSum(k, i, top) ==
    IF top < 0 THEN RInt(0)
    ELSE RAdd(DeductionSum(k, i, top - 1), Rat(top * i.d, k * i.d + top * i.n))

\* every term of the sum is defined
DeductionDefined(k, i) == \A l \in 0..(k - 1) : k * i.d + l * i.n # 0

\* C15: Act_DeductionTerm(k, i) returns 0 for every k <= 0 and every i; for
\* k > 0 it returns (1 + i)/k times the sum over l = 0..k-1 of
\* (l/k) / (1 + (l/k) * i) where that sum is defined, which is (k-1)/(2k) for
\* i = 0.
C15_DeductionTerm ==
    last.op = "Act_DeductionTerm" =>
        /\ last.k <= 0 => (last.out = "ok" /\ last.val = RInt(0))
        /\ (last.k > 0 /\ DeductionDefined(last.k, last.Rate)) =>
              /\ last.out = "ok"
              /\ last.val = RMul(Rat(last.Rate.n + last.Rate.d, last.Rate.d * last.k),
                                 DeductionSum(last.k, last.Rate, last.k - 1))
        /\ (last.k > 0 /\ last.Rate.n = 0) => last.val = Rat(last.k - 1, 2 * last.k)

\* the term for several payments a year at a positive rate, above its value
\* at rate 0
C15_Witness ==
    /\ last.op = "Act_DeductionTerm" /\ last.k = MaxK /\ last.Rate = R025
    /\ last.out = "ok"
    /\ RLt(Rat(last.k - 1, 2 * last.k), last.val)

\* C16: for k > 0, Act_ag_k(g, rate, k) returns g when rate = 0, and
\* (1 - v^g)/(1 - v) - DeductionTerm(k, rate) * (1 - v^g) with v = 1/(1 + rate)
\* for every other rate for which v and the deduction term are defined.
C16_AgFormula ==
    (last.op = "Act_ag_k" /\ last.k > 0 /\ last.Rate.n + last.Rate.d # 0
        /\ DeductionDefined(last.k, last.Rate)) =>
        /\ last.out = "ok"
        /\ last.val =
              IF last.Rate.n = 0 THEN RInt(last.g)
              ELSE RSub(RDiv(RSub(RInt(1), RPow(Rat(last.Rate.d, last.Rate.n + last.Rate.d), last.g)),
                             RSub(RInt(1), Rat(last.Rate.d, last.Rate.n + last.Rate.d))),
                        RMul(RMul(Rat(last.Rate.n + last.Rate.d, last.Rate.d * last.k),
                                  DeductionSum(last.k, last.Rate, last.k - 1)),
                             RSub(RInt(1), RPow(Rat(last.Rate.d, last.Rate.n + last.Rate.d), last.g))))

OutFuncs == {"NormGrossAnnualPrem", "GrossAnnualPrem", "GrossModalPrem", "Pxt"}

\* what an outfunc function answers now for the policy q and the tariff p
OutNow(f, q, p) ==
    CASE f = "NormGrossAnnualPrem" ->
            NormGrossAnnualPrem(cache, Store, source, p, q.sum_insured, q.x, q.sex,
                                q.n, q.t, q.pay_freq)
      [] f = "GrossAnnualPrem" ->
            GrossAnnualPrem(cache, Store, source, p, q.sum_insured, q.x, q.sex,
                            q.n, q.t, q.pay_freq)
      [] f = "GrossModalPrem" ->
            GrossModalPrem(cache, Store, source, p, q.sum_insured, q.x, q.sex,
                           q.n, q.t, q.pay_freq)
      [] f = "Pxt" ->
            Pxt(cache, Store, source, p, q.sum_insured, q.x, q.sex, q.n, q.t,
                q.pay_freq)

\* what calc_premium_calculation answers now for the policy q and the tariff p
CalcNow(q, p) ==
    calc_premium_calculation(cache, Store, source, q, WithSurcharge(p, q.pay_freq))

Returns(r, val) == r.out = "ok" /\ r.val = val
AgreesWith(r, f, val) == r.out = "ok" => r.prem[f] = val

\* the last policy with another sum insured and payment frequency
Other(si, pf) == [last.policy EXCEPT !.sum_insured = RInt(si), !.pay_freq = pf]

\* C17: when calc_premium_calculation returns, each of the four outfunc
\* functions returns, for the same policy and tariff, the entry of the same
\* name; a figure an outfunc function returns is the entry of a returning
\* calc_premium_calculation; GrossAnnualPrem is the sum insured times
\* NormGrossAnnualPrem; and NormGrossAnnualPrem and Pxt are the same for
\* every other sum insured and payment frequency.
C17_SameFigures ==
    /\ (last.op = "calc_premium_calculation" /\ last.out = "ok") =>
          /\ \A f \in OutFuncs :
                Returns(OutNow(f, last.policy, last.tariff), last.val[f])
          /\ last.val.GrossAnnualPrem =
                RMul(last.policy.sum_insured, last.val.NormGrossAnnualPrem)
          /\ \A si \in {1, 3000}, pf \in {1, 4} :
                /\ AgreesWith(CalcNow(Other(si, pf), last.tariff),
                              "NormGrossAnnualPrem", last.val.NormGrossAnnualPrem)
                /\ CalcNow(Other(si, pf), last.tariff).out = "ok"
                /\ AgreesWith(CalcNow(Other(si, pf), last.tariff), "Pxt", last.val.Pxt)
    /\ (last.op \in OutFuncs /\ last.out = "ok") =>
          AgreesWith(CalcNow(last.policy, last.tariff), last.op, last.val)
    /\ (last.op \in {"NormGrossAnnualPrem", "Pxt"} /\ last.out = "ok") =>
          \A si \in {1, 3000}, pf \in {0, 4} :
                Returns(OutNow(last.op, Other(si, pf), last.tariff), last.val)

\* premium figures for half-yearly payment, the modal premium carrying the
\* surcharge
C17_Witness ==
    /\ last.op = "calc_premium_calculation" /\ last.out = "ok"
    /\ last.policy.pay_freq = 2 /\ last.policy.sum_insured = RInt(2000)
    /\ RLt(RInt(0), last.val.Pxt)
    /\ RLt(last.val.Pxt, last.val.NormGrossAnnualPrem)
    /\ RLt(RMul(Rat(1, 2), last.val.GrossAnnualPrem), last.val.GrossModalPrem)

\* axn(t) as the factor function answers it now for the last policy
AxtNow ==
    Act_axn_k(cache, Store, source, last.policy.x, last.policy.t, last.policy.sex,
              last.tariff.mortality_table, last.tariff.interest_rate, 1)

\* the other factors of the premium formula are defined for the last policy
FactorsNow ==
    /\ Act_axn_k(cache, Store, source, last.policy.x, last.policy.n, last.policy.sex,
                 last.tariff.mortality_table, last.tariff.interest_rate, 1).out = "ok"
    /\ act_nGrAx(cache, Store, source, last.policy.x, last.policy.n, last.policy.sex,
                 last.tariff.mortality_table, last.tariff.interest_rate).out = "ok"

DenominatorZero ==
    AxtNow.out = "ok" /\ PremDenominator(AxtNow.val, last.policy.t, last.tariff).n = 0

\* C18: when (1 - beta1) * axn(t) - alpha * t is zero, calc_premium_calculation
\* and the outfunc functions that need NormGrossAnnualPrem return no figure,
\* and fail with the division-by-zero error where the other factors are
\* defined; when axn(t) is zero, calc_premium_calculation and outfunc.Pxt
\* return no figure either.
C18_ZeroDenominatorFails ==
    /\ (last.op \in OutFuncs \cup {"calc_premium_calculation"} /\ DenominatorZero) =>
          /\ last.out # "ok"
          /\ FactorsNow => last.out = "ZeroDivisionError"
    /\ (last.op \in {"Pxt", "calc_premium_calculation"} /\ AxtNow.out = "ok"
            /\ AxtNow.val.n = 0) =>
          /\ last.out # "ok"
          /\ FactorsNow => last.out = "ZeroDivisionError"

\* a vanishing denominator with axn(t) = 1
C18_Witness ==
    /\ last.op = "NormGrossAnnualPrem" /\ last.out = "ZeroDivisionError"
    /\ DenominatorZero /\ AxtNow.val = RInt(1) /\ FactorsNow

\* C19: calc_progression_values returns exactly max_k + 1 rows, the row at
\* position j (from 0) carrying k = j, and an omitted max_k stands for the
\* policy term n.
ProgOps == {"calc_progression_values", "calc_all"}

ProgNow == last.op \in ProgOps /\ last.out = "ok"

TopOf(max_k, policy) == IF max_k.none THEN policy.n ELSE max_k.v

C19_RowPerK ==
    ProgNow =>
        /\ Len(last.rows) = TopOf(last.max_k, last.policy) + 1
        /\ \A j \in 1..Len(last.rows) : last.rows[j].k = j - 1

\* C19 witness: a table of several rows, returned for an omitted max_k or
\* running past the policy term
C19_Witness ==
    /\ ProgNow
    /\ Len(last.rows) > 1
    /\ \/ last.max_k.none
       \/ last.max_k.v > last.policy.n

\* C20: Flex_phase of the row for k is 1 exactly when x + k >= min_age_flex
\* and k >= n - min_term_flex, otherwise 0.
C20_FlexPhase ==
    ProgNow =>
        \A j \in 1..Len(last.rows) :
            /\ last.rows[j].Flex_phase \in {0, 1}
            /\ last.rows[j].Flex_phase = 1 <=>
                   /\ last.policy.x + last.rows[j].k >= last.limits.min_age_flex
                   /\ last.rows[j].k >= last.policy.n - last.limits.min_term_flex

\* C20 witness: a table with a row in the flex phase and an earlier row where
\* the age condition alone holds
C20_Witness ==
    /\ ProgNow
    /\ \E j \in 1..Len(last.rows) : last.rows[j].Flex_phase = 1
    /\ \E j \in 1..Len(last.rows) :
           /\ last.rows[j].Flex_phase = 0
           /\ last.policy.x + last.rows[j].k >= last.limits.min_age_flex
           /\ last.rows[j].k < last.policy.n - last.limits.min_term_flex

\* C21: in every progression row Surrender_deduction lies within [0, 150]; it
\* is exactly 0 when k > n or the row is in the flex phase, and otherwise it is
\* 0.01 * (SumInsured - kDRx_pp) clamped to [50, 150].
ClampTo(v, lo, hi) == IF RLt(v, lo) THEN lo ELSE IF RLt(hi, v) THEN hi ELSE v

RowsNow == {last.rows[j] : j \in 1..Len(last.rows)}

AtRisk(r) == RMul(Rat(1, 100), RSub(last.policy.sum_insured, r.kDRx_pp))

C21_SurrenderDeduction ==
    ProgNow =>
        \A r \in RowsNow :
            /\ ~RLt(r.Surrender_deduction, RInt(0))
            /\ ~RLt(RInt(150), r.Surrender_deduction)
            /\ IF r.k > last.policy.n \/ r.Flex_phase = 1
               THEN r.Surrender_deduction = RInt(0)
               ELSE r.Surrender_deduction = ClampTo(AtRisk(r), RInt(50), RInt(150))

\* C21 witness: a table with a row whose deduction lies strictly between 50
\* and 150 and a row where the flex phase sets it to 0
C21_Witness ==
    /\ ProgNow
    /\ \E r \in RowsNow : /\ RLt(RInt(50), r.Surrender_deduction)
                          /\ RLt(r.Surrender_deduction, RInt(150))
    /\ \E r \in RowsNow : /\ r.Flex_phase = 1
                          /\ r.k <= last.policy.n
                          /\ r.Surrender_deduction = RInt(0)

ProgExpected ==
    IF source = NoFile THEN "FileNotFoundError"
    ELSE IF last.policy.x + 5 > MAX_AGE THEN "IndexError"
    ELSE IF last.policy.x + TopOf(last.max_k, last.policy) > MAX_AGE THEN "IndexError"
    ELSE "ok"

C24_NoPartialOutput ==
    last.op \in ProgOps =>
        /\ last.out = ProgExpected
        /\ last.out # "ok" => last.rows = <<>>

\* C24 witness: a call that failed in the row k = MAX_AGE + 1, after the rows
\* before it had been built
C24_Witness ==
    /\ last.op \in ProgOps
    /\ source # NoFile
    /\ last.policy.x + 5 <= MAX_AGE
    /\ ~last.max_k.none
    /\ last.max_k.v > MAX_AGE
    /\ last.out = "IndexError"
    /\ last.rows = <<>>

\* C30: the flex phase never reverts within a table: if the row k has
\* Flex_phase = 1, every later row has Flex_phase = 1 and
\* Surrender_deduction = 0.
C30_FlexNeverReverts ==
    ProgNow =>
        \A r \in RowsNow : \A q \in RowsNow :
            (r.Flex_phase = 1 /\ q.k > r.k) =>
                q.Flex_phase = 1 /\ q.Surrender_deduction = RInt(0)

\* C30 witness: a table that enters the flex phase after its first row and
\* has rows after the one that entered it
C30_Witness ==
    /\ ProgNow
    /\ \E r \in RowsNow : \E q \in RowsNow : \E p \in RowsNow :
           /\ p.Flex_phase = 0
           /\ r.Flex_phase = 1
           /\ q.k > r.k
           /\ q.k <= last.policy.n

\* C25: main returns 0 exactly when every compared field matches its
\* reference: the premium figures and the numeric fields of every row within
\* the absolute tolerance 1e-8 or the relative tolerance 1e-8 * max(|a|, |b|, 1),
\* k and Flex_phase exactly equal; a mismatch, an empty or a non-numeric
\* reference cell makes it return 1.
DiffOf(a, b) == RAbs(FSub(a, b))

WithinTolerance(a, b) ==
    \/ RLeq(DiffOf(a, b), Rat(1, 100000000))
    \/ \E scale \in {RAbs(a), RAbs(b), RInt(1)} :
           RLeqProd(DiffOf(a, b), Rat(1, 100000000), scale)

FieldMatches(name, value, cell) ==
    /\ cell.kind = "num"
    /\ IF name \in IntFields THEN cell.v = RInt(value) ELSE WithinTolerance(value, cell.v)

EveryFieldMatches ==
    /\ \A name \in PremFields : FieldMatches(name, last.prem[name], last.sheet.prem[name])
    /\ \A idx \in 1..Len(last.rows) : \A name \in ProgCols :
           FieldMatches(name, last.rows[idx][name], last.sheet.rows[idx][name])

MainNow == last.op = "main" /\ last.out = "ok"

C25_ZeroIffAllMatch ==
    MainNow => /\ last.ret \in {0, 1}
               /\ last.ret = 0 <=> EveryFieldMatches

\* C26: callers racing on the first table load only do redundant work: every
\* rate an Act_qx call returns is the rate the source holds for that table,
\* sex and age, whatever the interleaving of the callers.
SourceRate(c) == Act_qx(FreshStore, source, c.Age, c.Sex, c.TableId)

C26_RacingLoadsReturnSourceRates ==
    \A t \in Threads :
        (callers[t].call = "Act_qx" /\ At(t, "done") /\ callers[t].out = "ok")
            => callers[t].val = SourceRate(callers[t]).val

\* C27: callers racing on the first insert of a cache key may both run the
\* builder, but each returns the value of a sequential run and the cache
\* holds exactly that value for the key afterwards.
SequentialValue(c) ==
    Accessor(NoCache, FreshStore, source, c.Kind, c.Age, c.Sex, c.TableId, c.Rate,
             0, 0, 1).val

\* no call is in flight
Quiet == \A t \in Threads : callers[t].pc \in {"idle", "done"}

C27_RacingInsertsAgree ==
    \A t \in Threads :
        (callers[t].call = "Act" /\ At(t, "done") /\ callers[t].out = "ok")
            => /\ callers[t].val = SequentialValue(callers[t])
               /\ Quiet /\ (\A u \in Threads : callers[u].key = callers[t].key)
                      => /\ callers[t].key \in DOMAIN cache.d
                         /\ cache.d[callers[t].key] = SequentialValue(callers[t])

\* C28: cache coherence: a cache hit returns the value of the computation the
\* call denotes (its kind, age, normalized sex, table and interest rate),
\* never a value stored for another one: the keys of two calls coincide only
\* if the calls denote the same computation.
Uncached == Accessor(NoCache, Store, source, last.Kind, last.Age, last.Sex,
                     last.TableId, last.Rate, 0, 0, 1)

C28_HitIsOwnComputation ==
    (last.op = "Act" /\ last.hit) =>
        /\ Uncached.out = "ok"
        /\ last.val = Uncached.val

\* C29: an accessor call changes the cache by at most its own key: a call
\* that fails leaves the entries of the cache as they were, a call that finds
\* its key leaves them as they were, and a call that succeeds on a miss adds
\* the one entry of its key, with the value it returned, and nothing else.
ActStep == calls' = calls + 1 /\ last'.op = "Act"

FrameOfCall ==
    ActStep =>
        /\ (last'.out # "ok" \/ last'.hit) => cache'.d = cache.d
        /\ (last'.out = "ok" /\ ~last'.hit) =>
              /\ last'.key \notin DOMAIN cache.d
              /\ DOMAIN cache'.d = (DOMAIN cache.d) \cup {last'.key}
              /\ cache'.d[last'.key] = last'.val
              /\ \A k \in DOMAIN cache.d : cache'.d[k] = cache.d[k]

C29_OwnKeyOnly == [][FrameOfCall]_vars

\* a call failed on a cache that held the entry of an earlier call
C29_Witness ==
    /\ last.op = "Act"
    /\ Cardinality(DOMAIN cache.d) = 1
    /\ last.out # "ok"

====
